---- MODULE Spec2Model ----
(***************************************************************************)
(* Verification model of openclaw-orchestrator.                            *)
(*                                                                         *)
(* Part 1: the adaptive agent loop (Orchestrator.run, think, forceFinish,  *)
(* emergencySynthesize, parseAction, executeStep), the AgentRegistry       *)
(* routing it uses and the streaming behaviour of FunctionAdapter.         *)
(*                                                                         *)
(* JavaScript runs one synchronous segment at a time: every action below   *)
(* is the code that runs between two suspension points (an await).         *)
(***************************************************************************)
EXTENDS Integers, Sequences, FiniteSets, TLC

\* ------------------------------------------------------------------ bounds
MaxSteps == 2
MaxTasks == 2
MaxConc == 2
MaxChunks == 1
MaxCallers == 2
MaxSockets == 2
MaxEvents == 3
MaxChallenges == 2
MaxAcquires == 4
MaxResets == 1
MaxClock == 220

\* Calls made of the cache.
MaxCacheOps == 5

\* Nodes of a task graph given to the executor.
MaxNodes == 4

\* Goals submitted to the dashboard server, and the largest cap of its run map.
MaxSubmits == 3

MaxRuns == 2

\* Length of the task and agent strings given to taskKey.
MaxKeyLen == 2

\* Length of the varied end of an answer given to the salvage.
MaxAnswerEnd == 2

\* ------------------------------------------------------------ plain values
\* JavaScript's undefined, for the optional string fields.
Undefined == "<undefined>"

\* StepTask.result before the task is terminal (the field is absent).
NoResult == [status |-> "<absent>", output |-> Undefined]

\* What a raising callback throws: new Error(CallbackError).
CallbackError == "callback failed"

CallbackNames ==
    {"onThinking", "onStepStart", "onTaskStart", "onTaskChunk", "onTaskEnd",
     "onStepEnd", "onFinish", "onError"}

TaskId(k) == "t" \o ToString(k)

\* --------------------------------------------------------------- registry
\* An adapter registered with Orchestrator.addAgent.  executeStream tells
\* whether the adapter has the optional method, streamFn whether a
\* FunctionAdapter was given a streaming function, raises whether execute
\* may reject (FunctionAdapter.execute catches everything and never does).
Researcher ==
    [name |-> "researcher", capabilities |-> {"web", "search"},
     executeStream |-> FALSE, streamFn |-> FALSE, raises |-> TRUE]

Coder ==
    [name |-> "coder", capabilities |-> {"code", "debug"},
     executeStream |-> TRUE, streamFn |-> TRUE, raises |-> FALSE]

Registries == {<<>>, <<Researcher, Coder>>}

\* The agent hints the thinker puts on a task.
Hints == {Undefined, "coder"}

VARIABLES
    maxSteps,         \* RunOptions.maxSteps (or the configured default)
    maxConcurrency,   \* RunOptions.maxConcurrency (or the configured default)
    agents,           \* AgentRegistry.agents, in insertion order
    callbacks,        \* RunCallbacks: which are supplied, which raise
    state,            \* the RunState of the run
    pc,               \* where run() is suspended
    i,                \* the loop variable of run()
    attempt,          \* the loop variable of think()
    w,                \* the loop variable of executeStep()
    thr,              \* the async function of each task of the current step
    streamLive,       \* stream functions still running after their adapter returned
    chunks,           \* chunks emitted by stream functions so far
    events,           \* history: every callback invocation, in order
    statusLog,        \* history: every value assigned to state.status
    finishedAtWrites, \* history: number of assignments to state.finishedAt
    raised,           \* history: the exception the thinker raised inside think()
    forceReply,       \* history: what the thinker did on the forced-finish call
    outcomes,         \* history: what each adapter call returned or raised
    thinker,          \* Orchestrator.thinker: what the injected thinker may do when called
    calls,            \* history: which adapter was called for which task
    asked,            \* the prompts of the thinker calls of the Think in progress (or last)
    replies,          \* what the thinker did on those calls
    gw,               \* GatewayClient: ws, helloPayload, connectPromise, pending, pendingChats
    sockets,          \* the connection attempts of the client, each with its WebSocket
    callers,          \* the connect(), call() and chat() invocations made on the client
    wire,              \* history: the frames the client sent and the frames it handled
    picker,           \* one GatewayRegistry.pick call: registry, argument, position
    limiter,          \* the fields of a RateLimiter
    clock,            \* Date.now()
    rlog,             \* the requests made of the limiter and what became of them
    cache,            \* the fields of a Cache
    clog,             \* history: the keys of the cache by last use, and the last operation
    calc,             \* one call of a pure helper: its arguments and what it returned
    fa,               \* one FunctionAdapter.execute call: the function, the timer, the result
    dag,              \* one Executor.execute call: the graph, the options, the batch awaited
    srv               \* DashboardServer: the run map, the run store, the requests served

vars ==
    <<maxSteps, maxConcurrency, agents, callbacks, state, pc, i, attempt, w, thr,
      streamLive, chunks, events, statusLog, finishedAtWrites, raised, forceReply,
      outcomes, thinker, calls, asked, replies, gw, sockets, callers, wire,
      picker, limiter, clock, rlog, cache, clog, calc, fa, dag, srv>>

\* The state of the adaptive loop, and the state of the gateway client.
orchVars ==
    <<maxSteps, maxConcurrency, agents, callbacks, state, pc, i, attempt, w, thr,
      streamLive, chunks, events, statusLog, finishedAtWrites, raised, forceReply,
      outcomes, thinker, calls, asked, replies>>

gwVars == <<gw, sockets, callers, wire>>

\* The state of a GatewayRegistry.pick call, and of a RateLimiter.
pickVars == <<picker>>

rlVars == <<limiter, clock, rlog>>

\* The state of a Cache, of a helper call and of a FunctionAdapter call.
cacheVars == <<cache, clog>>

utilVars == <<cacheVars, calc, fa, dag, srv>>

\* What the handlers of one component leave alone.
exceptGateway == <<orchVars, pickVars, rlVars, utilVars>>

exceptPick == <<orchVars, gwVars, rlVars, utilVars>>

exceptLimiter == <<orchVars, gwVars, pickVars, utilVars>>

exceptCache == <<orchVars, gwVars, pickVars, limiter, rlog, calc, fa, dag, srv>>

exceptCalc == <<orchVars, gwVars, pickVars, rlVars, cacheVars, fa, dag, srv>>

exceptAdapter == <<orchVars, gwVars, pickVars, limiter, rlog, cacheVars, calc, dag, srv>>

exceptDag == <<orchVars, gwVars, pickVars, rlVars, cacheVars, calc, fa, srv>>

exceptServer == <<orchVars, gwVars, pickVars, rlVars, cacheVars, calc, fa, dag>>

\* ---------------------------------------------------------------- thinker
\* A parsed JSON value: the fields parseAction and the schema look at.
Obj(action, answer, tasks) == [action |-> action, answer |-> answer, tasks |-> tasks]

NoObject == Obj(Undefined, Undefined, <<>>)

\* A thinker output, by what parseAction's stages make of it:
\*   strict       JSON.parse of the fence-stripped, trimmed text succeeds
\*   inner        "none": no {...} in the text; "bad": there is one and
\*                JSON.parse of it fails; "ok": it parses
\*   obj          the value parsed (by whichever of the two succeeded)
\*   finishMarker the text matches /"action"\s*:\s*"finish"/
\*   answerTail   Undefined when /"answer"\s*:\s*"([\s\S]*)/ does not match,
\*                else the capture with trailing quotes, braces, backticks
\*                and whitespace removed and \n, \", \\ unescaped
Raw(strict, inner, obj, finishMarker, answerTail) ==
    [strict |-> strict, inner |-> inner, obj |-> obj,
     finishMarker |-> finishMarker, answerTail |-> answerTail]

Answers == {"All done."}

\* The tasks of an execute directive: n tasks, all with the same agent hint.
DirectiveTasks(n, hint) == [k \in 1..n |-> [id |-> TaskId(k), agent |-> hint]]

TaskLists == {DirectiveTasks(n, h) : n \in 1..MaxTasks, h \in Hints}

RawFinish(a) == Raw(TRUE, "ok", Obj("finish", a, <<>>), TRUE, a)
RawExecute(ts) == Raw(TRUE, "ok", Obj("execute", Undefined, ts), FALSE, Undefined)
RawTruncatedFinish == Raw(FALSE, "none", NoObject, TRUE, "Here is the answer")
RawGarbage == Raw(FALSE, "none", NoObject, FALSE, Undefined)
RawBadBraces == Raw(FALSE, "bad", NoObject, FALSE, Undefined)
RawEmptyAnswer == Raw(TRUE, "ok", Obj("finish", "", <<>>), TRUE, "")

RawOutputs ==
    {RawFinish(a) : a \in Answers} \cup {RawExecute(ts) : ts \in TaskLists}
    \cup {RawTruncatedFinish, RawGarbage, RawBadBraces, RawEmptyAnswer}

\* What one thinker invocation does: it returns a text or raises.
Returns(raw) == [kind |-> "return", raw |-> raw, message |-> Undefined]
Raises(message) == [kind |-> "raise", raw |-> RawGarbage, message |-> message]
NoReply == [kind |-> "none", raw |-> RawGarbage, message |-> Undefined]

ThinkerMessages == {"", "LLM is down"}

ThinkerOutcomes == {Returns(r) : r \in RawOutputs} \cup {Raises(m) : m \in ThinkerMessages}

\* --------------------------------------------------------- directive parser
Parsed(action) == [ok |-> TRUE, action |-> action, error |-> Undefined]
Thrown(message) == [ok |-> FALSE, action |-> NoObject, error |-> message]

salvageTruncatedFinish(raw) ==
    IF ~raw.finishMarker THEN Thrown("null")
    ELSE IF raw.answerTail = Undefined THEN Thrown("null")
    ELSE IF Len(raw.answerTail) < 10 THEN Thrown("null")
    ELSE Parsed(Obj("finish", raw.answerTail, <<>>))

\* OrchestratorActionSchema.safeParse: the directive's shape.
SchemaOk(obj) ==
    \/ /\ obj.action = "execute"
       /\ Len(obj.tasks) > 0
       /\ \A k \in 1..Len(obj.tasks) : obj.tasks[k].id # ""
    \/ /\ obj.action = "finish"
       /\ obj.answer # Undefined
       /\ obj.answer # ""

SchemaMessage(obj) == IF obj.action = "execute" THEN "no tasks" ELSE "no answer"

Validate(obj) ==
    IF SchemaOk(obj) THEN Parsed(obj)
    ELSE IF obj.action # "execute" /\ obj.action # "finish"
         THEN Thrown("Unknown orchestrator action: " \o obj.action)
         ELSE Thrown(SchemaMessage(obj))

parseAction(raw) ==
    IF raw.strict THEN Validate(raw.obj)
    ELSE IF raw.inner = "ok" THEN Validate(raw.obj)
    ELSE IF salvageTruncatedFinish(raw).ok THEN salvageTruncatedFinish(raw)
    ELSE IF raw.inner = "bad" THEN Thrown("Orchestrator returned invalid JSON")
    ELSE Thrown("Orchestrator returned no JSON object")

\* ---------------------------------------------------------------- routing
get(name) ==
    IF \E n \in 1..Len(agents) : agents[n].name = name
    THEN CHOOSE n \in 1..Len(agents) : agents[n].name = name
    ELSE 0

withCapability(cap) == {n \in 1..Len(agents) : cap \in agents[n].capabilities}

Min(S) == CHOOSE x \in S : \A y \in S : x <= y

\* Mutant of pick: a capability match is preferred to a name match.
pickCapabilityFirst(key) ==
    IF withCapability(key) # {} THEN Min(withCapability(key))
    ELSE IF get(key) # 0 THEN get(key)
    ELSE 0

\* AgentRegistry.pick; 0 stands for undefined.
pick(key) ==
    IF get(key) # 0 THEN get(key)
    ELSE IF withCapability(key) # {} THEN Min(withCapability(key))
    ELSE 0

First == IF Len(agents) > 0 THEN 1 ELSE 0

\* The adapter executeStep resolves for a task; 0 when there is none.
ResolveAgent(task) ==
    IF task.agent # Undefined /\ task.agent # ""
    THEN IF pick(task.agent) # 0 THEN pick(task.agent) ELSE First
    ELSE First

\* executeStep streams when the adapter has executeStream and onTaskChunk is given.
UsesStream(task) ==
    /\ ResolveAgent(task) # 0
    /\ agents[ResolveAgent(task)].executeStream
    /\ callbacks.onTaskChunk

\* ------------------------------------------------------------- run context
\* The part of the state one synchronous segment of run() reads and writes.
Cur ==
    [state |-> state, events |-> events, pc |-> pc, i |-> i, attempt |-> attempt,
     w |-> w, thr |-> thr, statusLog |-> statusLog, writes |-> finishedAtWrites,
     calls |-> calls, asked |-> asked, replies |-> replies]

Commit(c) ==
    /\ state' = c.state
    /\ events' = c.events
    /\ pc' = c.pc
    /\ i' = c.i
    /\ attempt' = c.attempt
    /\ w' = c.w
    /\ thr' = c.thr
    /\ statusLog' = c.statusLog
    /\ finishedAtWrites' = c.writes
    /\ calls' = c.calls
    /\ asked' = c.asked
    /\ replies' = c.replies

Event(cb, step, task, arg) == [cb |-> cb, step |-> step, task |-> task, arg |-> arg]

\* callbacks?.cb?.(...): the invocation is recorded; Throws tells whether it raised.
Fire(c, cb, step, task, arg) == [c EXCEPT !.events = Append(@, Event(cb, step, task, arg))]

Throws(cb) == cb \in callbacks.raising

SetStatus(c, status) ==
    [c EXCEPT !.state.status = status, !.statusLog = Append(@, status)]

\* state.finishedAt = Date.now(): the clock's value is left abstract (1).
SetFinishedAt(c) == [c EXCEPT !.state.finishedAt = 1, !.writes = @ + 1]

\* The catch block of run(): lines 306-312, then return state.
CatchBlock(c, message) ==
    LET c1 == SetStatus(c, "error")
        c2 == SetFinishedAt([c1 EXCEPT !.state.error = message])
        c3 == Fire(c2, "onError", 0, 0, message)
    IN  [c3 EXCEPT !.pc = IF Throws("onError") THEN "rejected" ELSE "returned"]

\* finalAnswer, status done, finishedAt, onFinish: lines 271-276 and 302-305.
FinishRun(c, answer) ==
    LET c1 == SetStatus([c EXCEPT !.state.finalAnswer = answer], "done")
        c2 == Fire(SetFinishedAt(c1), "onFinish", 0, 0, answer)
    IN  IF Throws("onFinish") THEN CatchBlock(c2, CallbackError)
        ELSE [c2 EXCEPT !.pc = "returned"]

\* buildContext: what the prompt shows of the run, per step the id, status
\* and output of each task (the output only when the task has a result).
buildContext(st) ==
    [s \in 1..Len(st.steps) |->
        [k \in 1..Len(st.steps[s].tasks) |->
            [id |-> st.steps[s].tasks[k].id, status |-> st.steps[s].tasks[k].status,
             output |-> st.steps[s].tasks[k].result.output]]]

NoSuffix == ""
RetrySuffix == "\n\nIMPORTANT: Respond with ONLY a JSON object, no other text."
ForceSuffix == "\n\nYou have reached the maximum number of steps. You MUST respond with a \"finish\" action now, synthesizing everything collected so far."

\* The argument of one callThinker call: a context and what is appended to it.
Prompt(context, suffix) == [context |-> context, suffix |-> suffix]

\* Mutant of LoopHead: the loop test is i <= maxSteps.
LoopHeadOffByOne(c) ==
    IF c.i <= maxSteps
    THEN LET c1 == Fire(SetStatus(c, "thinking"), "onThinking", c.i + 1, 0, Undefined)
         IN  IF Throws("onThinking") THEN CatchBlock(c1, CallbackError)
             ELSE [c1 EXCEPT !.pc = "think", !.attempt = 0,
                             !.asked = <<Prompt(buildContext(c.state), NoSuffix)>>,
                             !.replies = <<>>]
    ELSE [SetStatus(c, "thinking") EXCEPT !.pc = "force",
                                          !.asked = <<Prompt(buildContext(c.state), ForceSuffix)>>,
                                          !.replies = <<>>]

\* The head of the for loop of run(): either the next Think is started or
\* the loop exits and forceFinish calls the thinker.
LoopHead(c) ==
    IF c.i < maxSteps
    THEN LET c1 == Fire(SetStatus(c, "thinking"), "onThinking", c.i + 1, 0, Undefined)
         IN  IF Throws("onThinking") THEN CatchBlock(c1, CallbackError)
             ELSE [c1 EXCEPT !.pc = "think", !.attempt = 0,
                             !.asked = <<Prompt(buildContext(c.state), NoSuffix)>>,
                             !.replies = <<>>]
    ELSE [SetStatus(c, "thinking") EXCEPT !.pc = "force",
                                          !.asked = <<Prompt(buildContext(c.state), ForceSuffix)>>,
                                          !.replies = <<>>]

\* ------------------------------------------------------------ executeStep
CurrentStep(c) == c.state.steps[Len(c.state.steps)]

\* Mutant of Slice: the end of the slice is ignored (slice(i) for slice(i, i + n)).
SliceOpenEnded(seq, lo, hi) == {k \in 1..Len(seq) : lo < k}

\* Array.prototype.slice(lo, hi) for 0 <= lo <= hi, as the 1-based positions kept.
Slice(seq, lo, hi) == {k \in 1..Len(seq) : lo < k /\ k <= hi}

Window(c) == Slice(CurrentStep(c).tasks, c.w, c.w + maxConcurrency)

SetTask(c, k, status, result) ==
    [c EXCEPT !.state.steps[Len(c.state.steps)].tasks[k].status = status,
              !.state.steps[Len(c.state.steps)].tasks[k].result = result]

NoAgentResult == [status |-> "error", output |-> "No agent available"]

\* The adapter at position n of the registry is called for task k of step s.
Call(s, k, n) == [step |-> s, task |-> k, adapter |-> agents[n].name]

\* Mutant of StartTask: the no-agent branch returns without firing onTaskEnd.
StartTaskSilent(c, k) ==
    LET step == CurrentStep(c)
        c1 == Fire(SetTask(c, k, "running", NoResult), "onTaskStart", step.stepNumber, k, Undefined)
    IN  IF Throws("onTaskStart") THEN [c1 EXCEPT !.thr[k] = "settled"]
        ELSE IF ResolveAgent(step.tasks[k]) = 0
        THEN [SetTask(c1, k, "failed", NoAgentResult) EXCEPT !.thr[k] = "settled"]
        ELSE [c1 EXCEPT !.thr[k] = "await",
                        !.calls = @ \cup {Call(step.stepNumber, k, ResolveAgent(step.tasks[k]))}]

\* The body of the async function of task k up to its first await: lines 487-516.
StartTask(c, k) ==
    LET step == CurrentStep(c)
        c1 == Fire(SetTask(c, k, "running", NoResult), "onTaskStart", step.stepNumber, k, Undefined)
    IN  IF Throws("onTaskStart") THEN [c1 EXCEPT !.thr[k] = "settled"]
        ELSE IF ResolveAgent(step.tasks[k]) = 0
        THEN LET c2 == Fire(SetTask(c1, k, "failed", NoAgentResult),
                            "onTaskEnd", step.stepNumber, k, "error")
             IN  [c2 EXCEPT !.thr[k] = "settled"]
        ELSE [c1 EXCEPT !.thr[k] = "await",
                        !.calls = @ \cup {Call(step.stepNumber, k, ResolveAgent(step.tasks[k]))}]

\* batch.map(async (task) => ...): the tasks of the window, in list order.
RECURSIVE StartTasks(_, _, _)
StartTasks(c, k, todo) ==
    IF todo = {} THEN c
    ELSE IF k \in todo THEN StartTasks(StartTask(c, k), k + 1, todo \ {k})
    ELSE StartTasks(c, k + 1, todo)

\* The head of the for loop of executeStep: the next window is dispatched and
\* awaited, or the loop exits and executeStep returns.
WindowLoop(c) ==
    IF c.w < Len(CurrentStep(c).tasks)
    THEN [StartTasks(c, 1, Window(c)) EXCEPT !.pc = "window"]
    ELSE [c EXCEPT !.pc = "stepReturned"]

\* Mutant of NewTask: a task is created with a result already set.
NewTaskWithResult(t) ==
    [id |-> t.id, agent |-> t.agent, status |-> "pending",
     result |-> [status |-> "ok", output |-> ""]]

NewTask(t) == [id |-> t.id, agent |-> t.agent, status |-> "pending", result |-> NoResult]

\* Phase 2 of an iteration of run(): lines 280-294.
ExecutePhase(c, tasks) ==
    LET step == [stepNumber |-> c.i + 1, tasks |-> [k \in 1..Len(tasks) |-> NewTask(tasks[k])]]
        c1 == SetStatus(c, "executing")
        c2 == Fire([c1 EXCEPT !.state.steps = Append(@, step)], "onStepStart", c.i + 1, 0, Undefined)
    IN  IF Throws("onStepStart") THEN CatchBlock(c2, CallbackError)
        ELSE WindowLoop([c2 EXCEPT !.w = 0, !.thr = [k \in 1..Len(tasks) |-> "idle"],
                                   !.asked = <<>>, !.replies = <<>>])

\* ------------------------------------------------------------ forceFinish
RECURSIVE Join(_, _)
Join(parts, sep) ==
    IF Len(parts) = 0 THEN ""
    ELSE IF Len(parts) = 1 THEN parts[1]
    ELSE parts[1] \o sep \o Join(Tail(parts), sep)

RECURSIVE FlatMap(_, _)
FlatMap(Op(_), seq) == IF Len(seq) = 0 THEN <<>> ELSE Op(seq[1]) \o FlatMap(Op, Tail(seq))

Section(t) == "## " \o t.id \o "\n" \o t.result.output

DoneSections(step) ==
    LET Part(t) == IF t.status = "done" /\ t.result # NoResult THEN <<Section(t)>> ELSE <<>>
    IN  FlatMap(Part, step.tasks)

\* Mutant of emergencySynthesize: every task with a result gets a section,
\* failed ones included.
emergencySynthesizeAll(st) ==
    LET Part(t) == IF t.result # NoResult THEN <<Section(t)>> ELSE <<>>
        Sections(step) == FlatMap(Part, step.tasks)
        joined == Join(FlatMap(Sections, st.steps), "\n\n")
    IN  IF joined = "" THEN "No results collected." ELSE joined

emergencySynthesize(st) ==
    LET joined == Join(FlatMap(DoneSections, st.steps), "\n\n")
    IN  IF joined = "" THEN "No results collected." ELSE joined

\* forceFinish once the thinker has replied: lines 357-363.
forceFinish(st, reply) ==
    IF reply.kind = "raise" THEN emergencySynthesize(st)
    ELSE IF ~parseAction(reply.raw).ok THEN emergencySynthesize(st)
    ELSE IF parseAction(reply.raw).action.action = "finish"
         THEN parseAction(reply.raw).action.answer
         ELSE emergencySynthesize(st)

\* ------------------------------------------------------------------ think
Directive(action) == [kind |-> "action", action |-> action, error |-> Undefined]
Propagate(message) == [kind |-> "throw", action |-> NoObject, error |-> message]
Retry == [kind |-> "retry", action |-> NoObject, error |-> Undefined]

\* Mutant of think: a rejection of callThinker is retried like a parse failure.
thinkRetriesRaise(n, reply) ==
    IF reply.kind = "return" /\ parseAction(reply.raw).ok
    THEN Directive(parseAction(reply.raw).action)
    ELSE IF n = 0 THEN Retry
    ELSE IF reply.kind = "raise" THEN Propagate(reply.message)
    ELSE Propagate(parseAction(reply.raw).error)

\* Mutant of think: a parse failure is retried on every attempt.
thinkRetriesAlways(n, reply) ==
    IF reply.kind = "raise" THEN Propagate(reply.message)
    ELSE IF parseAction(reply.raw).ok THEN Directive(parseAction(reply.raw).action)
    ELSE Retry

\* think() once callThinker has settled: lines 333-349.  A rejection of
\* callThinker is outside the try and propagates; a parse failure is
\* retried once.
think(n, reply) ==
    IF reply.kind = "raise" THEN Propagate(reply.message)
    ELSE IF parseAction(reply.raw).ok THEN Directive(parseAction(reply.raw).action)
    ELSE IF n = 0 THEN Retry
    ELSE Propagate(parseAction(reply.raw).error)

\* run() resumed after await this.think(state): lines 268-294.
AfterThink(c, t) ==
    IF t.kind = "retry"
    THEN [c EXCEPT !.attempt = 1, !.asked = Append(@, Prompt(c.asked[1].context, RetrySuffix))]
    ELSE IF t.kind = "throw" THEN CatchBlock(c, t.error)
    ELSE IF t.action.action = "finish" THEN FinishRun(c, t.action.answer)
    ELSE ExecutePhase(c, t.action.tasks)

\* ---------------------------------------------------------------- adapters
AdapterOutcomes(agent) ==
    IF agent.raises THEN {"ok", "raise"} ELSE {"ok", "error", "timeout"}

\* The TaskResult executeStep stores for an adapter outcome: lines 517-521.
ResultOf(o) ==
    CASE o = "ok" -> [status |-> "ok", output |-> "out"]
      [] o = "error" -> [status |-> "error", output |-> "Error: boom"]
      [] o = "timeout" -> [status |-> "timeout", output |-> "Error: Function timed out"]
      [] OTHER -> [status |-> "error", output |-> "Error: nope"]

\* Mutant of StatusOf: every settled adapter call counts as done.
StatusOfAlwaysDone(result) == "done"

StatusOf(result) == IF result.status = "ok" THEN "done" ELSE "failed"

\* FunctionAdapter.executeStream emits a last chunk with done = true before it
\* returns: after a successful stream function, or with the whole output
\* when it has no stream function.
FinalChunk(agent, o) == IF agent.streamFn THEN o = "ok" ELSE TRUE

\* The stream function lost the race against the timer and keeps running.
Outlives(agent, o) == agent.streamFn /\ o = "timeout"

NotRaised == [happened |-> FALSE, message |-> Undefined, steps |-> <<>>]

\* --------------------------------------------------------- gateway client
\* A GatewayClient after construction: no socket, no hello, empty tables.
NoHello == "<none>"

NewClient(token) ==
    [ws |-> 0, hello |-> NoHello, connectPromise |-> 0, pending |-> {}, pendingChats |-> {},
     nextId |-> 1, token |-> token]

GwCallers == 1..MaxCallers

\* An invocation of connect(), call() or chat() that has not been made yet.
NoCaller ==
    [op |-> "none", pc |-> "idle", attempt |-> 0, owner |-> FALSE,
     id |-> 0, timer |-> FALSE, removed |-> 0, settleCalls |-> 0, by |-> "none",
     callResult |-> [status |-> "none", value |-> Undefined],
     runId |-> Undefined, chatTimer |-> FALSE, chatRemoved |-> 0, chatSettleCalls |-> 0,
     chatBy |-> "none", registeredAt |-> 0,
     result |-> [status |-> "none", value |-> Undefined]]

NoWire == [sent |-> {}, acked |-> {}, events |-> <<>>]

GatewayAtRest ==
    /\ gw = NewClient(FALSE)
    /\ sockets = <<>>
    /\ callers = [c \in GwCallers |-> NoCaller]
    /\ wire = NoWire

\* ------------------------------------------- GatewayRegistry, rest state
CONNECT_ATTEMPTS == 3

NoPick ==
    [names |-> <<>>, preferred |-> Undefined, pc |-> "idle", only |-> FALSE, cand |-> 0,
     attempt |-> 0, tried |-> <<>>, lastErr |-> Undefined, lastError |-> Undefined,
     result |-> [status |-> "none", value |-> Undefined]]

RegistryAtRest == picker = NoPick

\* ----------------------------------------------- RateLimiter, rest state
NewLimiter(maxRequests, windowMs, queueExcess, maxQueueSize) ==
    [maxRequests |-> maxRequests, windowMs |-> windowMs, queueExcess |-> queueExcess,
     maxQueueSize |-> maxQueueSize, timestamps |-> <<>>, queue |-> <<>>,
     processing |-> FALSE, wakeAt |-> 0,
     stats |-> [allowed |-> 0, throttled |-> 0, queued |-> 0, rejected |-> 0]]

NoLog == [requests |-> <<>>, grants |-> <<>>, resets |-> 0]

LimiterAtRest ==
    /\ limiter = NewLimiter(10, 1000, TRUE, 100)
    /\ clock = 0
    /\ rlog = NoLog

\* ----------------------------------------------------- Cache, rest state
NewCache(ttlMs, maxEntries, slidingExpiration) ==
    [ttlMs |-> ttlMs, maxEntries |-> maxEntries, slidingExpiration |-> slidingExpiration,
     entries |-> <<>>, stats |-> [hits |-> 0, misses |-> 0, evictions |-> 0]]

NoUse ==
    [recency |-> <<>>, ops |-> 0, hangs |-> FALSE,
     last |-> [op |-> "none", key |-> Undefined, result |-> Undefined]]

CacheAtRest ==
    /\ cache = NewCache(600000, 500, TRUE)
    /\ clog = NoUse

\* ------------------------------------------- helper calls, rest state
NoCalc == [pc |-> "idle"]


\* The error of the adapter's timer, a promise that has not settled, and an execute
\* call that has not been made.
TimedOut == [isError |-> TRUE, message |-> "Function timed out"]

NoSettlement == [kind |-> "pending", value |-> Undefined, err |-> TimedOut]

NewExecute ==
    [pc |-> "idle", timeout |-> 60000, start |-> 0, fn |-> NoSettlement, timer |-> "none",
     race |-> NoSettlement, first |-> "none", result |-> NoResult, returns |-> 0]

\* An Executor on which execute has not been called, and a dashboard server
\* that has not been asked anything.
NoGraph == [pc |-> "idle"]

NoServer == [runs |-> <<>>]

UtilitiesAtRest ==
    /\ CacheAtRest
    /\ calc = NoCalc
    /\ fa = NewExecute
    /\ dag = NoGraph
    /\ srv = NoServer

\* The components the adaptive loop does not use when a thinker is injected.
OthersAtRest == GatewayAtRest /\ RegistryAtRest /\ LimiterAtRest /\ UtilitiesAtRest

\* ------------------------------------------------------------------ Init
InitialState ==
    [steps |-> <<>>, status |-> "thinking", finalAnswer |-> Undefined,
     error |-> Undefined, finishedAt |-> 0]

\* The callbacks that may raise, one choice per run.
RaisingSets ==
    {{}, {"onThinking", "onStepStart"}, {"onTaskStart", "onTaskEnd"}, {"onStepEnd"},
     {"onFinish"}, {"onFinish", "onError"}}

InitRun ==
    /\ state = InitialState
    /\ pc = "start"
    /\ i = 0
    /\ attempt = 0
    /\ w = 0
    /\ thr = <<>>
    /\ streamLive = {}
    /\ chunks = 0
    /\ events = <<>>
    /\ statusLog = <<>>
    /\ finishedAtWrites = 0
    /\ raised = NotRaised
    /\ forceReply = NoReply
    /\ outcomes = {}
    /\ calls = {}
    /\ asked = <<>>
    /\ replies = <<>>

\* Callbacks that return normally.
Init ==
    /\ InitRun
    /\ OthersAtRest
    /\ maxSteps \in 0..MaxSteps
    /\ maxConcurrency \in 0..MaxConc
    /\ agents \in Registries
    /\ thinker = ThinkerOutcomes
    /\ callbacks \in {[onTaskChunk |-> b, raising |-> {}] : b \in BOOLEAN}

\* Callbacks that may raise as well.
InitRaising ==
    /\ InitRun
    /\ OthersAtRest
    /\ maxSteps \in 0..MaxSteps
    /\ maxConcurrency \in 0..MaxConc
    /\ agents \in Registries
    /\ thinker = ThinkerOutcomes
    /\ callbacks \in {[onTaskChunk |-> b, raising |-> r] : b \in BOOLEAN, r \in RaisingSets}

\* --------------------------------------------------------------- actions
env ==
    <<maxSteps, maxConcurrency, agents, callbacks, thinker, gwVars, pickVars, rlVars,
      utilVars>>

\* run() is called: the RunState is created and the loop entered.
Run ==
    /\ pc = "start"
    /\ Commit(LoopHead([Cur EXCEPT !.statusLog = <<"thinking">>]))
    /\ UNCHANGED <<env, streamLive, chunks, raised, forceReply, outcomes>>

\* The thinker settles the call made by think().
ThinkerReplies ==
    /\ pc = "think"
    /\ \E reply \in thinker :
          /\ Commit(AfterThink([Cur EXCEPT !.replies = Append(@, reply)], think(attempt, reply)))
          /\ raised' = IF reply.kind = "raise"
                       THEN [happened |-> TRUE, message |-> reply.message, steps |-> state.steps]
                       ELSE raised
    /\ UNCHANGED <<env, streamLive, chunks, forceReply, outcomes>>

\* The thinker settles the call made by forceFinish().
ForcedThinkerReplies ==
    /\ pc = "force"
    /\ \E reply \in thinker :
          /\ Commit(FinishRun([Cur EXCEPT !.replies = Append(@, reply)], forceFinish(state, reply)))
          /\ forceReply' = reply
    /\ UNCHANGED <<env, streamLive, chunks, raised, outcomes>>

\* The adapter call of task k settles: lines 517-524.
AgentSettles(k, o) ==
    /\ pc = "window"
    /\ k \in DOMAIN thr
    /\ thr[k] = "await"
    /\ LET step == CurrentStep(Cur)
           task == step.tasks[k]
           agent == agents[ResolveAgent(task)]
           result == ResultOf(o)
           c1 == IF UsesStream(task) /\ FinalChunk(agent, o)
                 THEN Fire(Cur, "onTaskChunk", step.stepNumber, k, "done")
                 ELSE Cur
           c2 == Fire(SetTask(c1, k, StatusOf(result), result),
                      "onTaskEnd", step.stepNumber, k, result.status)
       IN  /\ o \in AdapterOutcomes(agent)
           /\ Commit([c2 EXCEPT !.thr[k] = "settled"])
           /\ streamLive' = IF UsesStream(task) /\ Outlives(agent, o)
                            THEN streamLive \cup {<<step.stepNumber, k>>}
                            ELSE streamLive
           /\ outcomes' = outcomes \cup {[step |-> step.stepNumber, task |-> k, outcome |-> o]}
    /\ UNCHANGED <<env, chunks, raised, forceReply>>

\* A stream function calls emit: the sink of line 512 forwards to onTaskChunk.
Streaming(s, k) ==
    \/ <<s, k>> \in streamLive
    \/ /\ pc = "window"
       /\ s = Len(state.steps)
       /\ thr[k] = "await"
       /\ UsesStream(state.steps[s].tasks[k])
       /\ agents[ResolveAgent(state.steps[s].tasks[k])].streamFn

StreamChunk(s, k) ==
    /\ chunks < MaxChunks
    /\ s \in 1..Len(state.steps)
    /\ k \in 1..Len(state.steps[s].tasks)
    /\ Streaming(s, k)
    /\ events' = Append(events, Event("onTaskChunk", s, k, "more"))
    /\ chunks' = chunks + 1
    /\ UNCHANGED <<env, state, pc, i, attempt, w, thr, streamLive, statusLog,
                   finishedAtWrites, raised, forceReply, outcomes, calls, asked, replies>>

\* Promise.allSettled of the window resolves: every async function of the
\* window has returned or thrown.
AllSettled ==
    /\ pc = "window"
    /\ \A k \in Window(Cur) : thr[k] = "settled"
    /\ pc' = "resume"
    /\ UNCHANGED <<env, state, i, attempt, w, thr, streamLive, chunks, events, statusLog,
                   finishedAtWrites, raised, forceReply, outcomes, calls, asked, replies>>

\* executeStep resumes after the await: i += maxConcurrency and the loop test.
ResumeExecuteStep ==
    /\ pc = "resume"
    /\ Commit(WindowLoop([Cur EXCEPT !.w = @ + maxConcurrency]))
    /\ UNCHANGED <<env, streamLive, chunks, raised, forceReply, outcomes>>

\* run() resumes after await this.executeStep(...): onStepEnd, then the loop.
StepReturns ==
    /\ pc = "stepReturned"
    /\ LET c1 == Fire(Cur, "onStepEnd", i + 1, 0, Undefined)
       IN  Commit(IF Throws("onStepEnd") THEN CatchBlock(c1, CallbackError)
                  ELSE LoopHead([c1 EXCEPT !.i = @ + 1]))
    /\ UNCHANGED <<env, streamLive, chunks, raised, forceReply, outcomes>>

StepSet == 1..MaxSteps + 1
TaskSet == 1..MaxTasks + 1
OutcomeSet == {"ok", "error", "timeout", "raise"}

Next ==
    \/ Run
    \/ ThinkerReplies
    \/ ForcedThinkerReplies
    \/ \E k \in TaskSet, o \in OutcomeSet : AgentSettles(k, o)
    \/ \E s \in StepSet, k \in TaskSet : StreamChunk(s, k)
    \/ AllSettled
    \/ ResumeExecuteStep
    \/ StepReturns

Spec == Init /\ [][Next]_vars

\* The same program with callbacks that may raise.
SpecRaising == InitRaising /\ [][Next]_vars

\* The scheduling of the event loop: a settled promise's continuation runs,
\* and every adapter call eventually returns or raises.
Fairness ==
    /\ WF_vars(Run)
    /\ WF_vars(ThinkerReplies)
    /\ WF_vars(ForcedThinkerReplies)
    /\ WF_vars(\E k \in TaskSet, o \in OutcomeSet : AgentSettles(k, o))
    /\ WF_vars(AllSettled)
    /\ WF_vars(ResumeExecuteStep)
    /\ WF_vars(StepReturns)

FairSpec == Spec /\ Fairness

\* ---------------------------------------------------------------- routing
\* The same program with registries and agent hints that tell the routing
\* rules apart: an adapter whose capability is another adapter's name, two
\* adapters sharing a capability, a hint nobody answers to.
Reviewer ==
    [name |-> "reviewer", capabilities |-> {"code", "coder"},
     executeStream |-> FALSE, streamFn |-> FALSE, raises |-> FALSE]

RoutingRegistries == {<<>>, <<Researcher, Reviewer, Coder>>, <<Coder, Researcher>>}

RoutingHints == {Undefined, "coder", "code", "search", "nobody"}

RoutingTaskLists ==
    UNION {{[k \in 1..n |-> [id |-> TaskId(k), agent |-> h[k]]] : h \in [1..n -> RoutingHints]} :
           n \in 1..MaxTasks}

RoutingThinker ==
    {Returns(RawExecute(ts)) : ts \in RoutingTaskLists} \cup {Returns(RawFinish(a)) : a \in Answers}

InitRouting ==
    /\ InitRun
    /\ OthersAtRest
    /\ maxSteps = 1
    /\ maxConcurrency \in 1..MaxConc
    /\ agents \in RoutingRegistries
    /\ thinker = RoutingThinker
    /\ callbacks \in {[onTaskChunk |-> b, raising |-> {}] : b \in BOOLEAN}

SpecRouting == InitRouting /\ [][Next]_vars

\* ------------------------------------------------------------------ think
\* The same program with a thinker whose outputs reach every branch of
\* parseAction: prose around the JSON, an unknown action, an empty task
\* list, a missing answer.
RawProseFinish(a) == Raw(FALSE, "ok", Obj("finish", a, <<>>), TRUE, a)
RawDance == Raw(TRUE, "ok", Obj("dance", Undefined, <<>>), FALSE, Undefined)
RawEmptyTasks == Raw(TRUE, "ok", Obj("execute", Undefined, <<>>), FALSE, Undefined)
RawNoAnswer == Raw(TRUE, "ok", Obj("finish", Undefined, <<>>), TRUE, Undefined)

ThinkOutputs ==
    {RawFinish(a) : a \in Answers} \cup {RawProseFinish(a) : a \in Answers}
    \cup {RawExecute(DirectiveTasks(1, "coder")), RawTruncatedFinish, RawGarbage, RawBadBraces,
          RawEmptyAnswer, RawDance, RawEmptyTasks, RawNoAnswer}

ThinkThinker == {Returns(r) : r \in ThinkOutputs} \cup {Raises("LLM is down")}

InitThink ==
    /\ InitRun
    /\ OthersAtRest
    /\ maxSteps \in 1..MaxSteps
    /\ maxConcurrency = 1
    /\ agents = <<Researcher, Coder>>
    /\ thinker = ThinkThinker
    /\ callbacks \in {[onTaskChunk |-> b, raising |-> {}] : b \in BOOLEAN}

SpecThink == InitThink /\ [][Next]_vars

\* --------------------------------------------------------- GatewayClient
\* The part of the state one handler of the client reads and writes.
GCur == [gw |-> gw, sockets |-> sockets, callers |-> callers, wire |-> wire]

GCommit(x) ==
    /\ gw' = x.gw
    /\ sockets' = x.sockets
    /\ callers' = x.callers
    /\ wire' = x.wire

Hello == "hello"

\* get connected(): the current socket is OPEN and a hello is stored.
connected(x) ==
    /\ x.gw.ws # 0
    /\ x.sockets[x.gw.ws].ready = "open"
    /\ x.gw.hello # NoHello

\* A connection attempt (one doConnect call of a client configured without
\* a token): the WebSocket is created and the connect timeout armed.
NewAttempt ==
    [ready |-> "connecting", outcome |-> "pending", value |-> Undefined,
     connectSent |-> FALSE, fallback |-> FALSE, timeout |-> TRUE, connectId |-> 0,
     code |-> 0, frames |-> 0, signed |-> "none", nonce |-> Undefined,
     challenges |-> 0, challenge |-> Undefined, disconnected |-> FALSE]

doConnect(x) ==
    [x EXCEPT !.sockets = Append(@, NewAttempt), !.gw.ws = Len(x.sockets) + 1]

\* settle(fn) of doConnect: the attempt's promise is settled by the first caller only.
settle(x, a, status, value) ==
    IF x.sockets[a].outcome # "pending" THEN x
    ELSE [x EXCEPT !.sockets[a].outcome = status, !.sockets[a].value = value]

RunIdOf(c) == "run-" \o ToString(c)

Method(op) == IF op = "chat" THEN "chat.send" ELSE "models.list"

\* resolve or reject of a call()'s pending entry is invoked; the promise
\* takes the first settlement, and the caller goes on: call() returns it,
\* chat() takes the runId of the acknowledgement or rejects.
SettleCall(x, c, status, value, by) ==
    LET x1 == [x EXCEPT !.callers[c].settleCalls = @ + 1]
    IN  IF x.callers[c].callResult.status # "none" THEN x1
        ELSE LET x2 == [x1 EXCEPT !.callers[c].callResult = [status |-> status, value |-> value],
                                  !.callers[c].by = by]
             IN  IF x.callers[c].op = "chat" /\ status = "resolved"
                 THEN [x2 EXCEPT !.callers[c].pc = "acked", !.callers[c].runId = value]
                 ELSE [x2 EXCEPT !.callers[c].pc = "done",
                                 !.callers[c].result = [status |-> status, value |-> value]]

\* resolve or reject of a chat()'s pendingChats entry is invoked.
SettleChat(x, c, status, value, by) ==
    LET x1 == [x EXCEPT !.callers[c].chatSettleCalls = @ + 1]
    IN  IF x.callers[c].result.status # "none" THEN x1
        ELSE [x1 EXCEPT !.callers[c].result = [status |-> status, value |-> value],
                        !.callers[c].chatBy = by, !.callers[c].pc = "done"]

\* clearTimeout(p.timer); this.pending.delete(id)
RemoveEntry(x, e) ==
    LET x1 == [x EXCEPT !.gw.pending = @ \ {e}]
    IN  IF e.kind = "connect" THEN [x1 EXCEPT !.sockets[e.who].timeout = FALSE]
        ELSE [x1 EXCEPT !.callers[e.who].timer = FALSE, !.callers[e.who].removed = @ + 1]

\* clearTimeout(p.timer); this.pendingChats.delete(runId)
RemoveChat(x, e) ==
    [x EXCEPT !.gw.pendingChats = @ \ {e}, !.callers[e.caller].chatTimer = FALSE,
              !.callers[e.caller].chatRemoved = @ + 1]

\* The resolve and reject functions stored in a pending entry.
ResolveEntry(x, e, payload) ==
    IF e.kind = "connect"
    THEN settle([x EXCEPT !.sockets[e.who].timeout = FALSE, !.gw.hello = payload],
                e.who, "resolved", payload)
    ELSE SettleCall(x, e.who, "resolved", payload, "response")

RejectEntry(x, e, message, by) ==
    IF e.kind = "connect"
    THEN settle([x EXCEPT !.sockets[e.who].timeout = FALSE], e.who, "rejected", message)
    ELSE SettleCall(x, e.who, "rejected", message, by)

ErrorOf(frame) == "UNAVAILABLE: " \o frame.error

\* The entry is settled but stays in the table.
handleResponseKeeps(x, frame) ==
    LET es == {e \in x.gw.pending : e.id = frame.id}
    IN  IF es = {} THEN x
        ELSE LET e == CHOOSE e \in es : TRUE
                 x1 == IF e.kind = "connect" THEN [x EXCEPT !.sockets[e.who].timeout = FALSE]
                       ELSE [x EXCEPT !.callers[e.who].timer = FALSE]
             IN  IF frame.ok THEN ResolveEntry(x1, e, frame.payload)
                 ELSE RejectEntry(x1, e, ErrorOf(frame), "response")

handleResponse(x, frame) ==
    LET es == {e \in x.gw.pending : e.id = frame.id}
    IN  IF es = {} THEN x
        ELSE LET e == CHOOSE e \in es : TRUE
                 x1 == RemoveEntry(x, e)
             IN  IF frame.ok THEN ResolveEntry(x1, e, frame.payload)
                 ELSE RejectEntry(x1, e, ErrorOf(frame), "response")

\* payload.message.content.map((c) => c.text ?? "").join("")
TextOf(content) == Join(content, "")

\* A terminal event settles the chat but leaves its entry in the table.
handleChatEventKeeps(x, ev) ==
    LET es == {e \in x.gw.pendingChats : e.runId = ev.runId}
    IN  IF ev.runId = Undefined \/ es = {} THEN x
        ELSE LET e == CHOOSE e \in es : TRUE
             IN  IF ev.state = "final"
                 THEN SettleChat(x, e.caller, "resolved", TextOf(ev.content), "final")
                 ELSE IF ev.state = "error"
                 THEN SettleChat(x, e.caller, "rejected",
                                 IF ev.error = Undefined THEN "Chat stream error" ELSE ev.error,
                                 "error")
                 ELSE x

\* The event settles whichever chat is pending.
handleChatEventAnyRun(x, ev) ==
    LET es == x.gw.pendingChats
    IN  IF ev.runId = Undefined \/ es = {} THEN x
        ELSE LET e == CHOOSE e \in es : TRUE
             IN  IF ev.state = "final"
                 THEN SettleChat(RemoveChat(x, e), e.caller, "resolved", TextOf(ev.content), "final")
                 ELSE IF ev.state = "error"
                 THEN SettleChat(RemoveChat(x, e), e.caller, "rejected",
                                 IF ev.error = Undefined THEN "Chat stream error" ELSE ev.error,
                                 "error")
                 ELSE x

handleChatEvent(x, ev) ==
    LET es == {e \in x.gw.pendingChats : e.runId = ev.runId}
    IN  IF ev.runId = Undefined \/ es = {} THEN x
        ELSE LET e == CHOOSE e \in es : TRUE
             IN  IF ev.state = "final"
                 THEN SettleChat(RemoveChat(x, e), e.caller, "resolved", TextOf(ev.content), "final")
                 ELSE IF ev.state = "error"
                 THEN SettleChat(RemoveChat(x, e), e.caller, "rejected",
                                 IF ev.error = Undefined THEN "Chat stream error" ELSE ev.error,
                                 "error")
                 ELSE x

Frame(a, id, method, c) == [socket |-> a, id |-> id, method |-> method, caller |-> c]

\* A nonce that is not undefined and not the empty string.
Truthy(nonce) == nonce # Undefined /\ nonce # ""

sendConnectAgain(x, a, nonce) ==
    LET id == x.gw.nextId
        version == IF Truthy(nonce) THEN "v2" ELSE "v1"
        x1 == [x EXCEPT !.sockets[a].connectSent = TRUE, !.sockets[a].connectId = id,
                        !.gw.nextId = @ + 1,
                        !.gw.pending = @ \cup {[id |-> id, kind |-> "connect", who |-> a]}]
    IN  IF x.sockets[a].ready = "open"
        THEN [x1 EXCEPT !.wire.sent = @ \cup {Frame(a, id, "connect", 0)},
                        !.sockets[a].frames = @ + 1,
                        !.sockets[a].signed = version,
                        !.sockets[a].nonce = nonce]
        ELSE x1

\* sendConnect(nonce): at most one connect request per attempt, signed as v2 over the
\* nonce when there is one and as v1 otherwise; its pending entry shares the timer of
\* the connect timeout.
sendConnect(x, a, nonce) ==
    IF x.sockets[a].connectSent THEN x
    ELSE LET id == x.gw.nextId
             version == IF Truthy(nonce) THEN "v2" ELSE "v1"
             x1 == [x EXCEPT !.sockets[a].connectSent = TRUE, !.sockets[a].connectId = id,
                             !.gw.nextId = @ + 1,
                             !.gw.pending = @ \cup {[id |-> id, kind |-> "connect", who |-> a]}]
         IN  IF x.sockets[a].ready = "open"
             THEN [x1 EXCEPT !.wire.sent = @ \cup {Frame(a, id, "connect", 0)},
                             !.sockets[a].frames = @ + 1,
                             !.sockets[a].signed = version,
                             !.sockets[a].nonce = nonce]
             ELSE x1

\* call() from `const id = randomUUID()` on: the entry is registered, the
\* timer armed, the frame sent on the current socket.  send throws when
\* there is no socket or it is still CONNECTING; a socket that is closing
\* or closed drops the frame.
CallSend(x, c) ==
    LET id == x.gw.nextId
        x1 == [x EXCEPT !.gw.nextId = @ + 1,
                        !.gw.pending = @ \cup {[id |-> id, kind |-> "call", who |-> c]},
                        !.callers[c].id = id, !.callers[c].timer = TRUE,
                        !.callers[c].pc = "awaitResponse"]
        ws == x.gw.ws
    IN  IF ws = 0 \/ x.sockets[IF ws = 0 THEN 1 ELSE ws].ready = "connecting"
        THEN [x1 EXCEPT !.callers[c].callResult = [status |-> "rejected", value |-> "send failed"],
                        !.callers[c].by = "throw", !.callers[c].pc = "done",
                        !.callers[c].result = [status |-> "rejected", value |-> "send failed"]]
        ELSE IF x.sockets[ws].ready = "open"
        THEN [x1 EXCEPT !.wire.sent = @ \cup {Frame(ws, id, Method(x.callers[c].op), c)}]
        ELSE x1

\* Every call starts an attempt of its own.
connectAfresh(x, c) ==
    LET x1 == doConnect(x)
    IN  [x1 EXCEPT !.gw.connectPromise = Len(x1.sockets),
                   !.callers[c].pc = "awaitConnect", !.callers[c].attempt = Len(x1.sockets),
                   !.callers[c].owner = TRUE]

\* connect(): the stored hello, the attempt in flight, or a new attempt.
connect(x, c) ==
    IF x.gw.connectPromise # 0
    THEN [x EXCEPT !.callers[c].pc = "awaitConnect", !.callers[c].attempt = x.gw.connectPromise]
    ELSE LET x1 == doConnect(x)
         IN  [x1 EXCEPT !.gw.connectPromise = Len(x1.sockets),
                        !.callers[c].pc = "awaitConnect", !.callers[c].attempt = Len(x1.sockets),
                        !.callers[c].owner = TRUE]

\* A continuation of a settled promise is waiting to run.
Runnable(c) ==
    \/ callers[c].pc = "awaitConnect" /\ sockets[callers[c].attempt].outcome # "pending"
    \/ callers[c].pc = "acked"

\* No continuation is waiting: timers and socket events run only then.
Quiescent == \A c \in GwCallers : ~Runnable(c)

\* connect(), call() or chat() is invoked.
Start(c, op) ==
    /\ callers[c].op = "none"
    /\ \A d \in GwCallers : d < c => callers[d].op # "none"
    /\ LET x == [GCur EXCEPT !.callers[c].op = op]
       IN  IF connected(x)
           THEN GCommit(IF op = "connect"
                        THEN [x EXCEPT !.callers[c].pc = "done",
                                       !.callers[c].result = [status |-> "resolved", value |-> x.gw.hello]]
                        ELSE CallSend(x, c))
           ELSE /\ gw.connectPromise = 0 => Len(sockets) < MaxSockets
                /\ GCommit(connect(x, c))
    /\ UNCHANGED exceptGateway

\* The awaited connect() has settled: the caller that started the attempt
\* clears connectPromise; connect() returns the outcome, call() and chat()
\* go on to send their request or reject.
ConnectResumes(c) ==
    /\ callers[c].pc = "awaitConnect"
    /\ sockets[callers[c].attempt].outcome # "pending"
    /\ LET s == sockets[callers[c].attempt]
           x == IF callers[c].owner THEN [GCur EXCEPT !.gw.connectPromise = 0] ELSE GCur
       IN  GCommit(IF callers[c].op = "connect" \/ s.outcome = "rejected"
                   THEN [x EXCEPT !.callers[c].pc = "done",
                                  !.callers[c].result = [status |-> s.outcome, value |-> s.value]]
                   ELSE CallSend(x, c))
    /\ UNCHANGED exceptGateway

\* ws.on("open"): the 800 ms fallback timer is armed.
SocketOpens(a) ==
    /\ Quiescent
    /\ a \in 1..Len(sockets)
    /\ sockets[a].ready = "connecting"
    /\ GCommit([GCur EXCEPT !.sockets[a].ready = "open", !.sockets[a].fallback = TRUE])
    /\ UNCHANGED exceptGateway

\* The fallback timer fires: sendConnect().
FallbackFires(a) ==
    /\ Quiescent
    /\ a \in 1..Len(sockets)
    /\ sockets[a].fallback
    /\ GCommit(sendConnect([GCur EXCEPT !.sockets[a].fallback = FALSE], a, Undefined))
    /\ UNCHANGED exceptGateway

ResponseKinds == {"ok", "noRunId", "error"}

Payload(f, kind) ==
    IF f.method = "connect" THEN Hello
    ELSE IF f.method = "chat.send" THEN (IF kind = "ok" THEN RunIdOf(f.caller) ELSE Undefined)
    ELSE "models"

Receiving(a) == a \in 1..Len(sockets) /\ sockets[a].ready \in {"open", "closing"}

\* ws.on("message") with the response frame to request f.
ResponseArrives(f, kind) ==
    /\ f \in wire.sent
    /\ Receiving(f.socket)
    /\ kind = "noRunId" => f.method = "chat.send"
    /\ LET frame == [id |-> f.id, ok |-> kind # "error", payload |-> Payload(f, kind),
                     error |-> "busy"]
           started == IF f.method = "chat.send" /\ kind = "ok"
                      THEN {[socket |-> f.socket, runId |-> RunIdOf(f.caller)]} ELSE {}
       IN  GCommit(handleResponse([GCur EXCEPT !.wire.sent = @ \ {f},
                                               !.wire.acked = @ \cup started], frame))
    /\ UNCHANGED exceptGateway

ChatStates == {"delta", "final", "error"}

\* The content of the n-th chat event the client receives, when it is of run r.
ContentOf(r, n) == <<r, "#", ToString(n)>>

\* ws.on("message") with a chat event frame of a run the gateway started.
ChatEventArrives(s, st) ==
    /\ s \in wire.acked
    /\ Receiving(s.socket)
    /\ Len(wire.events) < MaxEvents
    /\ LET ev == [runId |-> s.runId, state |-> st,
                  content |-> ContentOf(s.runId, Len(wire.events) + 1),
                  error |-> IF st = "error" THEN "model overloaded" ELSE Undefined]
       IN  GCommit(handleChatEvent([GCur EXCEPT !.wire.events = Append(@, ev)], ev))
    /\ UNCHANGED exceptGateway

\* chat() resumes after await this.call("chat.send"): the runId is
\* registered in pendingChats and the chat timer armed.
ChatRegisters(c) ==
    /\ callers[c].pc = "acked"
    /\ LET r == callers[c].runId
       IN  GCommit(IF r = Undefined
                   THEN [GCur EXCEPT !.callers[c].pc = "done",
                                     !.callers[c].result = [status |-> "rejected",
                                                            value |-> "chat.send did not return a runId"]]
                   ELSE [GCur EXCEPT !.gw.pendingChats = {e \in @ : e.runId # r}
                                                         \cup {[runId |-> r, caller |-> c]},
                                     !.callers[c].chatTimer = TRUE,
                                     !.callers[c].pc = "awaitChat",
                                     !.callers[c].registeredAt = Len(wire.events)])
    /\ UNCHANGED exceptGateway

\* The per-request timer of call() fires.
CallTimeout(c) ==
    /\ Quiescent
    /\ callers[c].timer
    /\ LET es == {e \in gw.pending : e.id = callers[c].id}
           x1 == [GCur EXCEPT !.gw.pending = @ \ es, !.callers[c].timer = FALSE,
                              !.callers[c].removed = @ + Cardinality(es)]
       IN  GCommit(SettleCall(x1, c, "rejected",
                              "Request " \o Method(callers[c].op) \o " timed out after 30000ms",
                              "timeout"))
    /\ UNCHANGED exceptGateway

\* The timer of chat() fires.
ChatTimeout(c) ==
    /\ Quiescent
    /\ callers[c].chatTimer
    /\ LET es == {e \in gw.pendingChats : e.runId = callers[c].runId}
           x1 == [GCur EXCEPT !.gw.pendingChats = @ \ es, !.callers[c].chatTimer = FALSE,
                              !.callers[c].chatRemoved = @ + Cardinality(es)]
       IN  GCommit(SettleChat(x1, c, "rejected", "Chat response timed out after 120000ms",
                              "timeout"))
    /\ UNCHANGED exceptGateway

\* The connect timeout fires: the socket is closed and the attempt rejected.
ConnectTimeout(a) ==
    /\ Quiescent
    /\ a \in 1..Len(sockets)
    /\ sockets[a].timeout
    /\ LET x1 == [GCur EXCEPT !.sockets[a].timeout = FALSE]
       IN  GCommit(IF sockets[a].outcome # "pending" THEN x1
                   ELSE settle([x1 EXCEPT !.sockets[a].ready = "closing"], a, "rejected",
                               "Connection to gw timed out"))
    /\ UNCHANGED exceptGateway

\* ws.on("error"); the socket then closes.
SocketError(a) ==
    /\ Quiescent
    /\ a \in 1..Len(sockets)
    /\ sockets[a].ready \in {"connecting", "open"}
    /\ GCommit(settle([GCur EXCEPT !.sockets[a].timeout = FALSE, !.sockets[a].ready = "closing"],
                      a, "rejected", "socket error"))
    /\ UNCHANGED exceptGateway

ClosedMessage(code) == "Connection closed (code=" \o ToString(code) \o ")"

RECURSIVE RejectAllPending(_, _)
RejectAllPending(x, message) ==
    IF x.gw.pending = {} THEN x
    ELSE LET e == CHOOSE e \in x.gw.pending : \A d \in x.gw.pending : e.id <= d.id
         IN  RejectAllPending(RejectEntry(RemoveEntry(x, e), e, message, "close"), message)

RECURSIVE RejectAllChats(_, _)
RejectAllChats(x, message) ==
    IF x.gw.pendingChats = {} THEN x
    ELSE LET e == CHOOSE e \in x.gw.pendingChats : \A d \in x.gw.pendingChats : e.caller <= d.caller
         IN  RejectAllChats(SettleChat(RemoveChat(x, e), e.caller, "rejected", message, "close"),
                            message)

CloseCodes == {1000, 1006}

\* ws.on("close").
SocketCloses(a, code) ==
    /\ Quiescent
    /\ a \in 1..Len(sockets)
    /\ sockets[a].ready \in {"connecting", "open", "closing"}
    /\ LET x1 == [GCur EXCEPT !.sockets[a].ready = "closed", !.sockets[a].timeout = FALSE,
                              !.sockets[a].code = code, !.gw.hello = NoHello,
                              !.wire.sent = {f \in @ : f.socket # a},
                              !.wire.acked = {s \in @ : s.socket # a}]
           x2 == settle(x1, a, "rejected", ClosedMessage(code))
       IN  GCommit(RejectAllChats(RejectAllPending(x2, ClosedMessage(code)), ClosedMessage(code)))
    /\ UNCHANGED exceptGateway

\* disconnect().
Disconnect ==
    /\ Quiescent
    /\ gw.ws # 0
    /\ GCommit([GCur EXCEPT !.sockets[gw.ws].ready = IF @ = "closed" THEN @ ELSE "closing",
                            !.sockets[gw.ws].disconnected = TRUE,
                            !.gw.ws = 0, !.gw.hello = NoHello])
    /\ UNCHANGED exceptGateway

\* The nonce of a connect.challenge event: missing, empty, or a text.
Nonces == {Undefined, "", "n1", "n2"}

\* A connect.challenge event arrives: a nonce in it triggers sendConnect(nonce).
ChallengeArrives(a, nonce) ==
    /\ Quiescent
    /\ Receiving(a)
    /\ sockets[a].challenges < MaxChallenges
    /\ LET x == [GCur EXCEPT
                    !.sockets[a].challenges = @ + 1,
                    !.sockets[a].challenge =
                        IF @ = Undefined /\ Truthy(nonce) /\ sockets[a].fallback
                        THEN nonce ELSE @]
       IN  GCommit(IF Truthy(nonce) THEN sendConnect(x, a, nonce) ELSE x)
    /\ UNCHANGED exceptGateway

Ops == {"connect", "call", "chat"}

SocketSet == 1..MaxSockets

NextGateway ==
    \/ \E c \in GwCallers, op \in Ops : Start(c, op)
    \/ \E c \in GwCallers : ConnectResumes(c)
    \/ \E a \in SocketSet : SocketOpens(a)
    \/ \E a \in SocketSet : FallbackFires(a)
    \/ \E f \in wire.sent, kind \in ResponseKinds : ResponseArrives(f, kind)
    \/ \E s \in wire.acked, st \in ChatStates : ChatEventArrives(s, st)
    \/ \E c \in GwCallers : ChatRegisters(c)
    \/ \E c \in GwCallers : CallTimeout(c)
    \/ \E c \in GwCallers : ChatTimeout(c)
    \/ \E a \in SocketSet : ConnectTimeout(a)
    \/ \E a \in SocketSet : SocketError(a)
    \/ \E a \in SocketSet, code \in CloseCodes : SocketCloses(a, code)
    \/ Disconnect

\* The adaptive loop before run() is called.
OrchestratorAtRest ==
    /\ InitRun
    /\ maxSteps = 0
    /\ maxConcurrency = 1
    /\ agents = <<>>
    /\ thinker = {}
    /\ callbacks = [onTaskChunk |-> FALSE, raising |-> {}]

InitGateway ==
    /\ OrchestratorAtRest
    /\ GatewayAtRest
    /\ RegistryAtRest
    /\ LimiterAtRest
    /\ UtilitiesAtRest

SpecGateway == InitGateway /\ [][NextGateway]_vars

\* The handshake of connect() with a gateway that sends connect.challenge events.
NextHandshake ==
    \/ \E c \in GwCallers : Start(c, "connect")
    \/ \E c \in GwCallers : ConnectResumes(c)
    \/ \E a \in SocketSet : SocketOpens(a)
    \/ \E a \in SocketSet : FallbackFires(a)
    \/ \E a \in SocketSet, nonce \in Nonces : ChallengeArrives(a, nonce)
    \/ \E f \in wire.sent, kind \in ResponseKinds : ResponseArrives(f, kind)
    \/ \E a \in SocketSet : ConnectTimeout(a)
    \/ \E a \in SocketSet : SocketError(a)
    \/ \E a \in SocketSet, code \in CloseCodes : SocketCloses(a, code)
    \/ Disconnect

SpecHandshake == InitGateway /\ [][NextHandshake]_vars

\* The same under the scheduling of the event loop: the continuation of a settled
\* connect() runs, and the connect timeout fires unless it has been cleared.
FairHandshake ==
    /\ SpecHandshake
    /\ \A c \in GwCallers : WF_vars(ConnectResumes(c))
    /\ \A a \in SocketSet : WF_vars(ConnectTimeout(a))

\* ------------------------------------------------- GatewayRegistry.pick
GatewayNames == {"alpha", "beta", "gamma"}

\* this.clients, in insertion order.
GatewayRegistries == {<<>>, <<"alpha">>, <<"alpha", "beta">>, <<"beta", "gamma", "alpha">>}

Preferences == {Undefined, "alpha", "beta", "nowhere"}

\* The error client.connect() rejects with at one attempt on one gateway.
ConnectError(name, nth) == "refused by " \o name \o " (" \o ToString(nth) \o ")"

NoGateways == "No gateways configured"

CouldNotConnect(detail) ==
    "Could not connect to any gateway after " \o ToString(CONNECT_ATTEMPTS)
        \o " attempt(s). Last error: " \o detail

IndexOf(names, name) == CHOOSE n \in 1..Len(names) : names[n] = name

\* tryConnect(client) is entered: the first client.connect() is called.
tryConnect(p, n) ==
    [p EXCEPT !.cand = n, !.attempt = 1, !.pc = "connecting", !.lastErr = Undefined,
              !.tried = Append(@, p.names[n])]

\* pick(preferred) up to its first await.
Pick ==
    /\ picker.pc = "idle"
    /\ picker' =
          IF Len(picker.names) = 0
          THEN [picker EXCEPT !.pc = "done",
                              !.result = [status |-> "rejected", value |-> NoGateways]]
          ELSE IF picker.preferred # Undefined
                  /\ \E n \in 1..Len(picker.names) : picker.names[n] = picker.preferred
          THEN tryConnect([picker EXCEPT !.only = TRUE],
                          IndexOf(picker.names, picker.preferred))
          ELSE tryConnect(picker, 1)
    /\ UNCHANGED exceptPick

\* tryConnect has thrown lastErr: out of pick for the preferred gateway, on
\* to the next client of the loop otherwise.
tryConnectThrows(p) ==
    IF p.only
    THEN [p EXCEPT !.pc = "done", !.result = [status |-> "rejected", value |-> p.lastErr]]
    ELSE LET q == [p EXCEPT !.lastError = p.lastErr]
         IN  IF p.cand < Len(p.names) THEN tryConnect(q, p.cand + 1)
             ELSE [q EXCEPT !.pc = "done",
                            !.result = [status |-> "rejected",
                                        value |-> CouldNotConnect(q.lastError)]]

\* await client.connect() settles.
ConnectSettles(ok) ==
    /\ picker.pc = "connecting"
    /\ picker' =
          IF ok
          THEN [picker EXCEPT !.pc = "done",
                              !.result = [status |-> "resolved",
                                          value |-> picker.names[picker.cand]]]
          ELSE LET p == [picker EXCEPT
                            !.lastErr = ConnectError(picker.names[picker.cand], picker.attempt)]
               IN  IF picker.attempt < CONNECT_ATTEMPTS THEN [p EXCEPT !.pc = "backoff"]
                   ELSE tryConnectThrows(p)
    /\ UNCHANGED exceptPick

\* The retry delay has passed: the next attempt on the same gateway.
RetryDelayElapses ==
    /\ picker.pc = "backoff"
    /\ picker' = [picker EXCEPT !.attempt = @ + 1, !.pc = "connecting",
                                !.tried = Append(@, picker.names[picker.cand])]
    /\ UNCHANGED exceptPick

NextPick ==
    \/ Pick
    \/ \E ok \in BOOLEAN : ConnectSettles(ok)
    \/ RetryDelayElapses

InitPick ==
    /\ OrchestratorAtRest
    /\ GatewayAtRest
    /\ LimiterAtRest
    /\ UtilitiesAtRest
    /\ picker \in {[NoPick EXCEPT !.names = names, !.preferred = preferred] :
                      names \in GatewayRegistries, preferred \in Preferences}

SpecPick == InitPick /\ [][NextPick]_vars

\* ------------------------------------------------------------ RateLimiter
\* The limiter and the record of its use, as one handler reads and writes them.
LCur == [limiter |-> limiter, rlog |-> rlog]

LCommit(x) ==
    /\ limiter' = x.limiter
    /\ rlog' = x.rlog

RECURSIVE Filter(_, _)
Filter(seq, cutoff) ==
    IF seq = <<>> THEN <<>>
    ELSE IF Head(seq) > cutoff THEN <<Head(seq)>> \o Filter(Tail(seq), cutoff)
    ELSE Filter(Tail(seq), cutoff)

\* cleanup(): this.timestamps.filter((t) => t > Date.now() - this.windowMs)
cleanup(l, now) == [l EXCEPT !.timestamps = Filter(@, now - l.windowMs)]

\* this.timestamps.length <= this.maxRequests
HasSlotInclusive(l) == Len(l.timestamps) <= l.maxRequests

\* this.timestamps.length < this.maxRequests
HasSlot(l) == Len(l.timestamps) < l.maxRequests

\* nextAvailableIn(); with no timestamp recorded `oldest` is undefined and
\* the result NaN, which the drainer's setTimeout takes as the shortest delay.
nextAvailableIn(l, now) ==
    LET c == cleanup(l, now)
    IN  IF HasSlot(c) THEN 0
        ELSE IF c.timestamps = <<>> THEN -9
        ELSE IF c.timestamps[1] + c.windowMs - now > 0 THEN c.timestamps[1] + c.windowMs - now
        ELSE 0

\* Math.min(waitTime + 10, 100)
DrainDelay(waitTime) == IF waitTime + 10 < 100 THEN waitTime + 10 ELSE 100

\* this.timestamps.push(Date.now()); this.stats.allowed++
Grant(x, id, by, now) ==
    [x EXCEPT !.limiter.timestamps = Append(@, now),
              !.limiter.stats.allowed = @ + 1,
              !.rlog.requests[id].status = "granted",
              !.rlog.grants = Append(@, [id |-> id, by |-> by, at |-> now,
                                         epoch |-> x.rlog.resets])]

Reject(x, id, message) ==
    [x EXCEPT !.rlog.requests[id].status = "rejected", !.rlog.requests[id].value = message]

\* The while loop of processQueue, up to its await or its end.
RECURSIVE DrainLoop(_, _)
DrainLoop(x, now) ==
    IF x.limiter.queue = <<>> THEN [x EXCEPT !.limiter.processing = FALSE]
    ELSE LET c == [x EXCEPT !.limiter = cleanup(@, now)]
         IN  IF HasSlot(c.limiter)
             THEN DrainLoop(Grant([c EXCEPT !.limiter.queue = Tail(@)],
                                  Head(c.limiter.queue).id, "drainer", now), now)
             ELSE [c EXCEPT !.limiter.wakeAt =
                               now + DrainDelay(nextAvailableIn(c.limiter, now))]

\* processQueue() that starts draining only when a slot is free.
processQueueIfSlot(x, now) ==
    IF x.limiter.processing \/ x.limiter.queue = <<>> \/ ~HasSlot(x.limiter) THEN x
    ELSE DrainLoop([x EXCEPT !.limiter.processing = TRUE], now)

processQueue(x, now) ==
    IF x.limiter.processing \/ x.limiter.queue = <<>> THEN x
    ELSE DrainLoop([x EXCEPT !.limiter.processing = TRUE], now)

NewRequest(kind) == [kind |-> kind, status |-> "pending", value |-> Undefined]

\* acquire() with the queue test `this.queue.length > this.maxQueueSize`.
acquireQueueOneMore(x0, now) ==
    LET id == Len(x0.rlog.requests) + 1
        x == [x0 EXCEPT !.rlog.requests = Append(@, NewRequest("acquire")),
                        !.limiter = cleanup(@, now)]
    IN  IF HasSlot(x.limiter) THEN Grant(x, id, "acquire", now)
        ELSE LET y == [x EXCEPT !.limiter.stats.throttled = @ + 1]
             IN  IF ~y.limiter.queueExcess
                 THEN Reject([y EXCEPT !.limiter.stats.rejected = @ + 1], id,
                             "Rate limit exceeded")
                 ELSE IF Len(y.limiter.queue) > y.limiter.maxQueueSize
                 THEN Reject([y EXCEPT !.limiter.stats.rejected = @ + 1], id,
                             "Rate limit queue full")
                 ELSE processQueue(
                          [y EXCEPT !.limiter.stats.queued = @ + 1,
                                    !.limiter.queue = Append(@, [id |-> id, timestamp |-> now]),
                                    !.rlog.requests[id].status = "queued"], now)

\* acquire()
acquire(x0, now) ==
    LET id == Len(x0.rlog.requests) + 1
        x == [x0 EXCEPT !.rlog.requests = Append(@, NewRequest("acquire")),
                        !.limiter = cleanup(@, now)]
    IN  IF HasSlot(x.limiter) THEN Grant(x, id, "acquire", now)
        ELSE LET y == [x EXCEPT !.limiter.stats.throttled = @ + 1]
             IN  IF ~y.limiter.queueExcess
                 THEN Reject([y EXCEPT !.limiter.stats.rejected = @ + 1], id,
                             "Rate limit exceeded")
                 ELSE IF Len(y.limiter.queue) >= y.limiter.maxQueueSize
                 THEN Reject([y EXCEPT !.limiter.stats.rejected = @ + 1], id,
                             "Rate limit queue full")
                 ELSE processQueue(
                          [y EXCEPT !.limiter.stats.queued = @ + 1,
                                    !.limiter.queue = Append(@, [id |-> id, timestamp |-> now]),
                                    !.rlog.requests[id].status = "queued"], now)

\* tryAcquire()
tryAcquire(x0, now) ==
    LET id == Len(x0.rlog.requests) + 1
        x == [x0 EXCEPT !.rlog.requests = Append(@, NewRequest("tryAcquire")),
                        !.limiter = cleanup(@, now)]
    IN  IF HasSlot(x.limiter) THEN Grant(x, id, "tryAcquire", now)
        ELSE [x EXCEPT !.limiter.stats.throttled = @ + 1,
                       !.rlog.requests[id].status = "refused"]

RECURSIVE RejectQueued(_, _)
RejectQueued(x, queue) ==
    IF queue = <<>> THEN x
    ELSE RejectQueued(Reject(x, Head(queue).id, "Rate limiter reset"), Tail(queue))

\* reset() without `this.queue = []`.
resetKeepsQueue(x) ==
    LET y == RejectQueued(x, x.limiter.queue)
    IN  [y EXCEPT !.limiter.timestamps = <<>>,
                  !.limiter.stats = [allowed |-> 0, throttled |-> 0, queued |-> 0,
                                     rejected |-> 0],
                  !.rlog.resets = @ + 1]

\* reset()
reset(x) ==
    LET y == RejectQueued(x, x.limiter.queue)
    IN  [y EXCEPT !.limiter.timestamps = <<>>, !.limiter.queue = <<>>,
                  !.limiter.stats = [allowed |-> 0, throttled |-> 0, queued |-> 0,
                                     rejected |-> 0],
                  !.rlog.resets = @ + 1]

Acquire ==
    /\ Len(rlog.requests) < MaxAcquires
    /\ LCommit(acquire(LCur, clock))
    /\ UNCHANGED <<clock, exceptLimiter>>

TryAcquire ==
    /\ Len(rlog.requests) < MaxAcquires
    /\ LCommit(tryAcquire(LCur, clock))
    /\ UNCHANGED <<clock, exceptLimiter>>

\* The timer the drainer awaits has fired.
DrainerWakes ==
    /\ limiter.processing
    /\ clock >= limiter.wakeAt
    /\ LCommit(DrainLoop(LCur, clock))
    /\ UNCHANGED <<clock, exceptLimiter>>

Reset ==
    /\ rlog.resets < MaxResets
    /\ LCommit(reset(LCur))
    /\ UNCHANGED <<clock, exceptLimiter>>

Advances == {50, 110}

\* Time passes.
Tick(d) ==
    /\ clock + d <= MaxClock
    /\ clock' = clock + d
    /\ UNCHANGED <<limiter, rlog, exceptLimiter>>

NextLimiter ==
    \/ Acquire
    \/ TryAcquire
    \/ DrainerWakes
    \/ Reset
    \/ \E d \in Advances : Tick(d)

InitLimiter ==
    /\ OrchestratorAtRest
    /\ GatewayAtRest
    /\ RegistryAtRest
    /\ UtilitiesAtRest
    /\ limiter \in {NewLimiter(maxRequests, 100, queueExcess, maxQueueSize) :
                       maxRequests \in 0..2, queueExcess \in BOOLEAN, maxQueueSize \in 1..2}
    /\ clock = 0
    /\ rlog = NoLog

SpecLimiter == InitLimiter /\ [][NextLimiter]_vars

\* The same with time advancing and the drainer's timer firing.
FairLimiter ==
    /\ SpecLimiter
    /\ WF_vars(DrainerWakes)
    /\ WF_vars(\E d \in Advances : Tick(d))

\* ------------------------------------------------------------------ Cache
\* The cache and the record of its use, as one method reads and writes them.
CCur == [cache |-> cache, clog |-> clog]

CCommit(x) ==
    /\ cache' = x.cache
    /\ clog' = x.clog

\* The keys given to the cache, the empty string among them.
CacheKeys == {"a", "b", "c", ""}

CacheValues == {"v1"}

\* Map.keys(), Map.has(), Map.get() and Map.delete() on the entries, which are kept
\* in the insertion order of the Map.
KeysOf(entries) == {entries[n].key : n \in 1..Len(entries)}

EntryOf(entries, key) == entries[CHOOSE n \in 1..Len(entries) : entries[n].key = key]

MapDelete(entries, key) == SelectSeq(entries, LAMBDA e : e.key # key)

\* Map.set(): a key the Map already holds keeps its place, a new key goes last.
MapSet(entries, entry) ==
    IF entry.key \in KeysOf(entries)
    THEN [n \in 1..Len(entries) |->
             IF entries[n].key = entry.key THEN entry ELSE entries[n]]
    ELSE Append(entries, entry)

\* The record of use: a key that was set or read successfully is the most recently used.
Used(x, key) ==
    [x EXCEPT !.clog.recency = Append(SelectSeq(@, LAMBDA k : k # key), key)]

Gone(x, keys) ==
    [x EXCEPT !.clog.recency = SelectSeq(@, LAMBDA k : k \notin keys)]

Did(x, op, key, result) ==
    [x EXCEPT !.clog.last = [op |-> op, key |-> key, result |-> result],
              !.clog.ops = @ + 1]

\* Cache.get(key)
cacheGet(x, key, now) ==
    IF key \notin KeysOf(x.cache.entries)
    THEN Did([x EXCEPT !.cache.stats.misses = @ + 1], "get", key, Undefined)
    ELSE LET entry == EntryOf(x.cache.entries, key)
         IN  IF now > entry.expiresAt
             THEN Did(Gone([x EXCEPT !.cache.entries = MapDelete(@, key),
                                     !.cache.stats.misses = @ + 1], {key}),
                      "get", key, Undefined)
             ELSE LET hit == [entry EXCEPT
                                 !.hits = @ + 1,
                                 !.expiresAt = IF x.cache.slidingExpiration
                                               THEN now + x.cache.ttlMs ELSE @]
                  IN  Did(Used([x EXCEPT !.cache.stats.hits = @ + 1,
                                         !.cache.entries =
                                             MapSet(MapDelete(@, key), hit)], key),
                          "get", key, entry.value)

\* if (oldestKey): undefined (an empty Map) and the empty string are falsy.
Falsy(oldestKey) == oldestKey = Undefined \/ oldestKey = ""

\* The eviction loop of Cache.set: the first key of the Map goes while the Map
\* is full. When the first key is falsy the body of the loop does nothing and
\* the loop goes round for ever: hangs is set and the call does not return.
RECURSIVE Evict(_)
Evict(x) ==
    IF Len(x.cache.entries) >= x.cache.maxEntries
    THEN LET oldestKey == IF x.cache.entries = <<>> THEN Undefined
                          ELSE Head(x.cache.entries).key
         IN  IF Falsy(oldestKey) THEN [x EXCEPT !.clog.hangs = TRUE]
             ELSE Evict(Gone([x EXCEPT !.cache.entries = MapDelete(@, oldestKey),
                                       !.cache.stats.evictions = @ + 1], {oldestKey}))
    ELSE x

\* Cache.set(key, value)
set(x0, key, value, now) ==
    LET x == Evict(x0)
        entry == [key |-> key, value |-> value, expiresAt |-> now + x.cache.ttlMs,
                  hits |-> 0]
    IN  IF x.clog.hangs THEN Did(x, "set", key, Undefined)
        ELSE Did(Used([x EXCEPT !.cache.entries = MapSet(@, entry)], key),
                 "set", key, Undefined)

\* Cache.has(key)
has(x, key, now) ==
    IF key \notin KeysOf(x.cache.entries)
    THEN Did(x, "has", key, FALSE)
    ELSE IF now > EntryOf(x.cache.entries, key).expiresAt
         THEN Did(Gone([x EXCEPT !.cache.entries = MapDelete(@, key)], {key}),
                  "has", key, FALSE)
         ELSE Did(x, "has", key, TRUE)

\* Cache.delete(key)
delete(x, key) ==
    Did(Gone([x EXCEPT !.cache.entries = MapDelete(@, key)], {key}),
        "delete", key, key \in KeysOf(x.cache.entries))

\* Cache.prune()
prune(x, now) ==
    LET expired == {e.key : e \in {x.cache.entries[n] : n \in 1..Len(x.cache.entries)}}
                   \ KeysOf(SelectSeq(x.cache.entries, LAMBDA e : ~(now > e.expiresAt)))
    IN  Did(Gone([x EXCEPT !.cache.entries =
                               SelectSeq(@, LAMBDA e : ~(now > e.expiresAt))], expired),
            "prune", Undefined, Cardinality(expired))

\* Cache.size
size(x) == Len(x.cache.entries)

\* The caller makes another call: the last one returned.
CacheCalls == clog.ops < MaxCacheOps /\ ~clog.hangs

Set(key, value) ==
    /\ CacheCalls
    /\ CCommit(set(CCur, key, value, clock))
    /\ UNCHANGED <<clock, exceptCache>>

Get(key) ==
    /\ CacheCalls
    /\ CCommit(cacheGet(CCur, key, clock))
    /\ UNCHANGED <<clock, exceptCache>>

Has(key) ==
    /\ CacheCalls
    /\ CCommit(has(CCur, key, clock))
    /\ UNCHANGED <<clock, exceptCache>>

Delete(key) ==
    /\ CacheCalls
    /\ CCommit(delete(CCur, key))
    /\ UNCHANGED <<clock, exceptCache>>

Prune ==
    /\ CacheCalls
    /\ CCommit(prune(CCur, clock))
    /\ UNCHANGED <<clock, exceptCache>>

NextCache ==
    \/ \E key \in CacheKeys, value \in CacheValues : Set(key, value)
    \/ \E key \in CacheKeys : Get(key)
    \/ \E key \in CacheKeys : Has(key)
    \/ \E key \in CacheKeys : Delete(key)
    \/ Prune
    \/ \E d \in Advances : Tick(d)

InitCache ==
    /\ OrchestratorAtRest
    /\ GatewayAtRest
    /\ RegistryAtRest
    /\ limiter = NewLimiter(10, 1000, TRUE, 100)
    /\ rlog = NoLog
    /\ clock = 0
    /\ cache \in {NewCache(100, maxEntries, sliding) :
                     maxEntries \in 2..3, sliding \in BOOLEAN}
    /\ clog = NoUse
    /\ calc = NoCalc
    /\ fa = NewExecute
    /\ dag = NoGraph
    /\ srv = NoServer

SpecCache == InitCache /\ [][NextCache]_vars

\* --------------------------------------------------------- Cache.taskKey
\* Strings are sequences of characters; these are the characters of the tasks and
\* agent names tried.
KeyChars == {"a", ":"}

KeyStrings == UNION {[1..n -> KeyChars] : n \in 0..MaxKeyLen}

\* An agent argument that was not passed.
NoAgent == <<Undefined>>

\* createHash("sha256").update(input).digest("hex").slice(0, 16): a digest that
\* tells any two of the inputs tried apart.
Sha256Hex16(input) == <<"sha256">> \o input

\* Cache.taskKey(task, agent): an absent and an empty agent are both falsy.
taskKey(task, agent) ==
    LET input == IF agent # NoAgent /\ agent # <<>> THEN agent \o <<":">> \o task ELSE task
    IN  Sha256Hex16(input)

\* taskKey is called on each pair of arguments in turn.
TaskKeyCalled ==
    /\ calc.pc = "taskKey"
    /\ Len(calc.out) < Len(calc.args)
    /\ LET arg == calc.args[Len(calc.out) + 1]
       IN  calc' = [calc EXCEPT !.out = Append(@, taskKey(arg.task, arg.agent))]
    /\ UNCHANGED exceptCalc

NextTaskKey == TaskKeyCalled

TaskKeyArgs == [task : KeyStrings, agent : KeyStrings \cup {NoAgent}]

InitTaskKey ==
    /\ OrchestratorAtRest
    /\ GatewayAtRest
    /\ RegistryAtRest
    /\ LimiterAtRest
    /\ CacheAtRest
    /\ fa = NewExecute
    /\ dag = NoGraph
    /\ srv = NoServer
    /\ calc \in {[pc |-> "taskKey", args |-> <<one, other>>, out |-> <<>>] :
                    one \in TaskKeyArgs, other \in TaskKeyArgs}

SpecTaskKey == InitTaskKey /\ [][NextTaskKey]_vars

\* ------------------------------------- salvageTruncatedFinish, on the text
\* The thinker's text as a sequence of characters.
Quote == "\""

Backslash == "\\"

Newline == "\n"

\* The character of a code fence.
Backtick == "<backtick>"

Whitespace == {" ", Newline, "\t"}

\* The characters an answer is made of, and the answers tried: a short one, or a
\* plain text of ten characters followed by it.
AnswerChars == {"x", "n", Quote, Backslash, Newline, "}"}

AnswerEnds == UNION {[1..n -> AnswerChars] : n \in 0..MaxAnswerEnd}

TenChars == <<"T", "h", "e", " ", "r", "e", "s", "u", "l", "t">>

AnswerTexts == AnswerEnds \cup {TenChars \o s : s \in AnswerEnds}

\* JSON.stringify of a string: quote, backslash and newline are escaped.
RECURSIVE Escaped(_)
Escaped(s) ==
    IF s = <<>> THEN <<>>
    ELSE (CASE Head(s) = Quote -> <<Backslash, Quote>>
            [] Head(s) = Backslash -> <<Backslash, Backslash>>
            [] Head(s) = Newline -> <<Backslash, "n">>
            [] OTHER -> <<Head(s)>>) \o Escaped(Tail(s))

Quoted(s) == <<Quote>> \o Escaped(s) \o <<Quote>>

ActionWord == <<"a", "c", "t", "i", "o", "n">>

FinishWord == <<"f", "i", "n", "i", "s", "h">>

AnswerWord == <<"a", "n", "s", "w", "e", "r">>

\* A finish directive as JSON, its two members in either order.
Serialized(answer, order) ==
    LET action == Quoted(ActionWord) \o <<":">> \o Quoted(FinishWord)
        answerMember == Quoted(AnswerWord) \o <<":">> \o Quoted(answer)
    IN  IF order = "action first"
        THEN <<"{">> \o action \o <<",">> \o answerMember \o <<"}">>
        ELSE <<"{">> \o answerMember \o <<",">> \o action \o <<"}">>

\* JSON.parse of a string literal whose opening quote is at p - 1.
RECURSIVE ReadString(_, _, _)
ReadString(text, p, sofar) ==
    IF p > Len(text) THEN [ok |-> FALSE, value |-> sofar, next |-> p]
    ELSE IF text[p] = Quote THEN [ok |-> TRUE, value |-> sofar, next |-> p + 1]
    ELSE IF text[p] = Backslash
         THEN IF p + 1 > Len(text) THEN [ok |-> FALSE, value |-> sofar, next |-> p]
              ELSE ReadString(text, p + 2,
                              Append(sofar, IF text[p + 1] = "n" THEN Newline
                                            ELSE text[p + 1]))
    ELSE ReadString(text, p + 1, Append(sofar, text[p]))

\* JSON.parse of an object of two string members: the member named "answer".
JsonParseAnswer(text) ==
    LET key1 == ReadString(text, 3, <<>>)
        val1 == ReadString(text, key1.next + 2, <<>>)
        key2 == ReadString(text, val1.next + 2, <<>>)
        val2 == ReadString(text, key2.next + 2, <<>>)
    IN  IF key1.value = AnswerWord THEN val1.value ELSE val2.value

\* text.slice(p) starts with the word.
StartsAt(text, p, word) ==
    /\ p + Len(word) - 1 <= Len(text)
    /\ \A k \in 1..Len(word) : text[p + k - 1] = word[k]

\* \s* from p on: the position of the first character that is not whitespace.
RECURSIVE SkipSpace(_, _)
SkipSpace(text, p) ==
    IF p <= Len(text) /\ text[p] \in Whitespace THEN SkipSpace(text, p + 1) ELSE p

\* The position after a match of "<key>"\s*:\s*"<value> at p, or 0.
MemberAt(text, p, key, value) ==
    IF ~StartsAt(text, p, Quoted(key)) THEN 0
    ELSE LET colon == SkipSpace(text, p + Len(key) + 2)
         IN  IF ~StartsAt(text, colon, <<":">>) THEN 0
             ELSE LET open == SkipSpace(text, colon + 1)
                  IN  IF StartsAt(text, open, <<Quote>> \o value)
                      THEN open + 1 + Len(value) ELSE 0

\* answer.replace(...): the trailing quotes, closing braces, whitespace and
\* backticks are removed.
RECURSIVE StripTail(_)
StripTail(s) ==
    IF s # <<>> /\ s[Len(s)] \in {Quote, "}", Backtick} \cup Whitespace
    THEN StripTail(SubSeq(s, 1, Len(s) - 1))
    ELSE s

\* s.replace(/<a><b>/g, r): from the left, matches do not overlap.
RECURSIVE ReplaceAll(_, _, _, _)
ReplaceAll(s, a, b, r) ==
    IF Len(s) < 2 THEN s
    ELSE IF s[1] = a /\ s[2] = b
         THEN <<r>> \o ReplaceAll(SubSeq(s, 3, Len(s)), a, b, r)
         ELSE <<s[1]>> \o ReplaceAll(Tail(s), a, b, r)

Unescaped(s) ==
    ReplaceAll(ReplaceAll(ReplaceAll(s, Backslash, "n", Newline),
                          Backslash, Quote, Quote),
               Backslash, Backslash, Backslash)

NoSalvage == [ok |-> FALSE, action |-> "none", answer |-> <<>>]

\* salvageTruncatedFinish(raw) on the characters of raw.
salvageText(raw) ==
    LET finishMatch == {p \in 1..Len(raw) :
                           MemberAt(raw, p, ActionWord, FinishWord \o <<Quote>>) # 0}
        answerMatch == {p \in 1..Len(raw) : MemberAt(raw, p, AnswerWord, <<>>) # 0}
    IN  IF finishMatch = {} THEN NoSalvage
        ELSE IF answerMatch = {} THEN NoSalvage
        ELSE LET first == CHOOSE p \in answerMatch : \A q \in answerMatch : p <= q
                 group == SubSeq(raw, MemberAt(raw, first, AnswerWord, <<>>), Len(raw))
                 answer == Unescaped(StripTail(group))
             IN  IF Len(answer) < 10 THEN NoSalvage
                 ELSE [ok |-> TRUE, action |-> "finish", answer |-> answer]

\* A finish directive is serialized, and the text is parsed and salvaged.
Serialize ==
    /\ calc.pc = "directive"
    /\ calc' = [calc EXCEPT !.pc = "text", !.raw = Serialized(calc.answer, calc.order)]
    /\ UNCHANGED exceptCalc

JsonParse ==
    /\ calc.pc = "text"
    /\ ~calc.parsed.ok
    /\ calc' = [calc EXCEPT !.parsed = [ok |-> TRUE, action |-> "finish",
                                        answer |-> JsonParseAnswer(calc.raw)]]
    /\ UNCHANGED exceptCalc

Salvage ==
    /\ calc.pc = "text"
    /\ ~calc.salvageCalled
    /\ calc' = [calc EXCEPT !.salvageCalled = TRUE, !.salvaged = salvageText(calc.raw)]
    /\ UNCHANGED exceptCalc

NextSalvage == Serialize \/ JsonParse \/ Salvage

InitSalvage ==
    /\ OrchestratorAtRest
    /\ GatewayAtRest
    /\ RegistryAtRest
    /\ LimiterAtRest
    /\ CacheAtRest
    /\ fa = NewExecute
    /\ dag = NoGraph
    /\ srv = NoServer
    /\ calc \in {[pc |-> "directive", answer |-> answer, order |-> order, raw |-> <<>>,
                  parsed |-> NoSalvage, salvageCalled |-> FALSE, salvaged |-> NoSalvage] :
                    answer \in AnswerTexts \ {<<>>},
                    order \in {"action first", "answer first"}}

SpecSalvage == InitSalvage /\ [][NextSalvage]_vars

\* -------------------------------------------------------- DashboardServer
\* The event each callback that executeRun hands to run() broadcasts.
SseType(cb) ==
    CASE cb = "onThinking" -> "step:thinking"
      [] cb = "onStepStart" -> "step:started"
      [] cb = "onTaskStart" -> "task:started"
      [] cb = "onTaskChunk" -> "task:chunk"
      [] cb = "onTaskEnd" -> "task:ended"
      [] cb = "onStepEnd" -> "step:ended"
      [] cb = "onFinish" -> "run:complete"
      [] cb = "onError" -> "run:error"

SseEvent(type, step, task) == [type |-> type, stepNumber |-> step, taskId |-> task]

\* What broadcastSSE has written for the run that executeRun executes: run:started
\* before run() is called, one event per callback invocation, and run:error from the
\* catch block when run() rejects.
executeRun ==
    IF pc = "start" THEN <<>>
    ELSE <<SseEvent("run:started", 0, 0)>>
         \o [n \in 1..Len(events) |->
                SseEvent(SseType(events[n].cb), events[n].step, events[n].task)]
         \o (IF pc = "rejected" THEN <<SseEvent("run:error", 0, 0)>> ELSE <<>>)

\* A goal accepted by POST /api/runs: the options of the request, the callbacks of
\* executeRun, which are all supplied and return normally.
InitDashboard ==
    /\ InitRun
    /\ OthersAtRest
    /\ maxSteps \in 1..MaxSteps
    /\ maxConcurrency \in 1..MaxConc
    /\ agents \in Registries
    /\ thinker = ThinkerOutcomes
    /\ callbacks = [onTaskChunk |-> TRUE, raising |-> {}]

SpecDashboard == InitDashboard /\ [][Next]_vars /\ Fairness

\* -------------------------------------------------------- FunctionAdapter
\* What the function of the adapter may resolve with and what it may raise: an
\* Error with a message, or a bare string.
FnValues == {"v1", "v2"}

FnMessages == {"boom", "", "Function timed out"}

\* FunctionAdapterOptions.timeout
AdapterTimeouts == {50, 110}

FnErrors == [isError : BOOLEAN, message : FnMessages]

\* String(err)
StringOf(err) == IF err.isError THEN "Error: " \o err.message ELSE err.message

Fulfilled(value) == [kind |-> "fulfilled", value |-> value, err |-> TimedOut]

Rejected(err) == [kind |-> "rejected", value |-> Undefined, err |-> err]

\* Promise.race: the first promise to settle decides.
Race(x, settlement) ==
    IF x.race.kind = "pending" THEN [x EXCEPT !.race = settlement] ELSE x

\* The return statements of execute: after the await, and in the catch block.
ExecuteResult(settlement, start, now) ==
    IF settlement.kind = "fulfilled"
    THEN [status |-> "ok", output |-> settlement.value, durationMs |-> now - start]
    ELSE LET isTimeout == settlement.err.isError
                          /\ settlement.err.message = "Function timed out"
         IN  [status |-> IF isTimeout THEN "timeout" ELSE "error",
              output |-> StringOf(settlement.err), durationMs |-> now - start]

\* FunctionAdapter.execute is called with a function that returns a promise: the
\* timer is armed and the race awaited.
Execute ==
    /\ fa.pc = "idle"
    /\ fa' = [fa EXCEPT !.pc = "await", !.fn = NoSettlement, !.timer = "armed",
                        !.start = clock]
    /\ UNCHANGED <<clock, exceptAdapter>>

\* The same with a function that raises before it returns a promise: the catch
\* block runs at once and no timer is armed.
ExecuteFnThrows(err) ==
    /\ fa.pc = "idle"
    /\ fa' = [fa EXCEPT !.pc = "returned", !.fn = Rejected(err), !.first = "rejected",
                        !.start = clock,
                        !.result = ExecuteResult(Rejected(err), clock, clock),
                        !.returns = @ + 1]
    /\ UNCHANGED <<clock, exceptAdapter>>

\* A pending continuation of execute runs before any timer does.
ExecuteRunnable == fa.pc = "await" /\ fa.race.kind # "pending"

FnResolves(value) ==
    /\ fa.pc # "idle"
    /\ fa.fn.kind = "pending"
    /\ fa' = [Race(fa, Fulfilled(value)) EXCEPT
                 !.fn = Fulfilled(value),
                 !.first = IF @ = "none" THEN "fulfilled" ELSE @]
    /\ UNCHANGED <<clock, exceptAdapter>>

FnRejects(err) ==
    /\ fa.pc # "idle"
    /\ fa.fn.kind = "pending"
    /\ fa' = [Race(fa, Rejected(err)) EXCEPT
                 !.fn = Rejected(err),
                 !.first = IF @ = "none" THEN "rejected" ELSE @]
    /\ UNCHANGED <<clock, exceptAdapter>>

\* setTimeout(() => reject(new Error("Function timed out")), this.timeout)
TimeoutElapses ==
    /\ fa.timer = "armed"
    /\ clock >= fa.start + fa.timeout
    /\ ~ExecuteRunnable
    /\ fa' = [Race(fa, Rejected(TimedOut)) EXCEPT
                 !.timer = "fired",
                 !.first = IF @ = "none" THEN "timeout" ELSE @]
    /\ UNCHANGED <<clock, exceptAdapter>>

\* The race has settled: execute resumes and returns.
ExecuteResumes ==
    /\ ExecuteRunnable
    /\ fa' = [fa EXCEPT !.pc = "returned",
                        !.result = ExecuteResult(fa.race, fa.start, clock),
                        !.returns = @ + 1]
    /\ UNCHANGED <<clock, exceptAdapter>>

NextAdapter ==
    \/ Execute
    \/ \E err \in FnErrors : ExecuteFnThrows(err)
    \/ \E value \in FnValues : FnResolves(value)
    \/ \E err \in FnErrors : FnRejects(err)
    \/ TimeoutElapses
    \/ ExecuteResumes
    \/ \E d \in Advances : ~ExecuteRunnable /\ Tick(d)

InitAdapter ==
    /\ OrchestratorAtRest
    /\ GatewayAtRest
    /\ RegistryAtRest
    /\ LimiterAtRest
    /\ CacheAtRest
    /\ calc = NoCalc
    /\ dag = NoGraph
    /\ srv = NoServer
    /\ fa \in {[NewExecute EXCEPT !.timeout = timeout] : timeout \in AdapterTimeouts}

SpecAdapter == InitAdapter /\ [][NextAdapter]_vars

\* ------------------------------------------------ Executor (task graph)
\* A task graph is the sequence of its nodes; the id of a node is its
\* position, and MaxNodes + 1 is an id no node has.
NodeIds(nodes) == 1..Len(nodes)

NewNode(dependsOn) == [dependsOn |-> dependsOn, status |-> "pending", result |-> NoResult]

\* The adjacency list both hasCycle and skipDownstream build: the nodes that
\* depend on id, in node order.
dependents(nodes, id) ==
    {n \in NodeIds(nodes) : id \in nodes[n].dependsOn}

Ascending(S) ==
    LET RECURSIVE Asc(_)
        Asc(R) == IF R = {} THEN <<>> ELSE <<Min(R)>> \o Asc(R \ {Min(R)})
    IN  Asc(S)

\* dfs of hasCycle: colours id gray, follows its dependents, colours it black.
RECURSIVE dfs(_, _, _), dfsNext(_, _, _)
dfs(nodes, id, color) ==
    LET r == dfsNext(nodes, Ascending(dependents(nodes, id)), [color EXCEPT ![id] = "gray"])
    IN  IF r.cycle THEN r
        ELSE [cycle |-> FALSE, color |-> [r.color EXCEPT ![id] = "black"]]

dfsNext(nodes, todo, color) ==
    IF todo = <<>> THEN [cycle |-> FALSE, color |-> color]
    ELSE IF color[Head(todo)] = "gray" THEN [cycle |-> TRUE, color |-> color]
    ELSE IF color[Head(todo)] = "white"
         THEN LET r == dfs(nodes, Head(todo), color)
              IN  IF r.cycle THEN r ELSE dfsNext(nodes, Tail(todo), r.color)
    ELSE dfsNext(nodes, Tail(todo), color)

hasCycle(nodes) ==
    LET RECURSIVE From(_, _)
        From(n, color) ==
            IF n > Len(nodes) THEN FALSE
            ELSE IF color[n] # "white" THEN From(n + 1, color)
            ELSE LET r == dfs(nodes, n, color)
                 IN  r.cycle \/ From(n + 1, r.color)
    IN  From(1, [n \in NodeIds(nodes) |-> "white"])

\* validate: TRUE when it returns, FALSE when it throws.
validate(nodes) ==
    /\ \A n \in NodeIds(nodes) :
          /\ nodes[n].dependsOn \subseteq NodeIds(nodes)
          /\ n \notin nodes[n].dependsOn
    /\ ~hasCycle(nodes)

\* readyNodes, as the ids of the nodes it returns, in node order.
readyNodes(nodes) ==
    LET done == {n \in NodeIds(nodes) : nodes[n].status = "done"}
    IN  Ascending({n \in NodeIds(nodes) :
                      nodes[n].status = "pending" /\ nodes[n].dependsOn \subseteq done})

isComplete(nodes) ==
    \A n \in NodeIds(nodes) : nodes[n].status \in {"done", "failed", "skipped"}

\* skipDownstream: a breadth-first walk over the dependents of the failed
\* node; every node visited that is pending becomes skipped.
RECURSIVE skipWalk(_, _, _)
skipWalk(graph, todo, seen) ==
    CHOOSE walked \in
        {IF queue = <<>> THEN nodes
         ELSE LET id == Head(queue)
              IN  IF id \in visited THEN skipWalk(nodes, Tail(queue), visited)
                  ELSE skipWalk(
                         IF nodes[id].status = "pending"
                         THEN [nodes EXCEPT ![id].status = "skipped"] ELSE nodes,
                         Tail(queue) \o Ascending(dependents(nodes, id)),
                         visited \cup {id}) :
            nodes \in {graph}, queue \in {todo}, visited \in {seen}} : TRUE

\* Mutant of skipDownstream: only the direct dependents are skipped.
skipDirect(nodes, failedNodeId) ==
    [n \in NodeIds(nodes) |->
        IF n \in dependents(nodes, failedNodeId) /\ nodes[n].status = "pending"
        THEN [nodes[n] EXCEPT !.status = "skipped"] ELSE nodes[n]]

skipDownstream(nodes, failedNodeId) ==
    skipWalk(nodes, Ascending(dependents(nodes, failedNodeId)), {})

DEFAULT_MAX_CONCURRENCY == 8

\* What an agent call comes to: a result with status ok, a result with
\* status error (also what executeNode returns when no agent is found), or
\* a rejection.
NodeOutcomes == {"ok", "error", "raise"}

TaskResultOf(o) ==
    CASE o = "ok" -> [status |-> "ok", output |-> "out"]
      [] o = "error" -> [status |-> "error", output |-> "failed"]
      [] o = "raise" -> [status |-> "error", output |-> "Error: boom"]

\* The end of execute: the success flag and the return.
executeReturns(x) ==
    [x EXCEPT !.pc = "returned",
              !.success = \A n \in NodeIds(x.nodes) : x.nodes[n].status = "done"]

\* executeNode up to its await: the node is running and onNodeStart fired.
executeNode(x, n) ==
    [x EXCEPT !.nodes[n].status = "running", !.started = Append(@, n)]

RECURSIVE executeNodes(_, _)
executeNodes(x0, todo) ==
    CHOOSE started \in
        {IF batch = <<>> THEN x
         ELSE executeNodes(executeNode(x, Head(batch)), Tail(batch)) :
            x \in {x0}, batch \in {todo}} : TRUE

\* Mutant of executeLoop: the batch is every pending node, ready or not.
executeLoopAllPending(x0) ==
    CHOOSE looped \in
        {IF isComplete(x.nodes) THEN executeReturns(x)
         ELSE LET pending == Ascending({n \in NodeIds(x.nodes) : x.nodes[n].status = "pending"})
                  batch == [p \in Slice(pending, 0, x.maxConcurrency) |-> pending[p]]
              IN  [executeNodes(x, batch) EXCEPT
                      !.pc = "await", !.batch = batch,
                      !.settled = [p \in DOMAIN batch |-> "none"]] : x \in {x0}} : TRUE

\* One pass of the while loop of execute, from its test to the await of
\* Promise.allSettled, or to the return. (Here and below an argument is bound
\* as x so that its value is computed once.)
executeLoop(x0) ==
    CHOOSE looped \in
        {IF isComplete(x.nodes) THEN executeReturns(x)
         ELSE IF x.aborted
         THEN executeReturns(
                 [x EXCEPT !.nodes = [n \in NodeIds(x.nodes) |->
                     IF x.nodes[n].status = "pending"
                     THEN [x.nodes[n] EXCEPT !.status = "skipped"] ELSE x.nodes[n]]])
         ELSE LET ready == readyNodes(x.nodes)
              IN  IF ready = <<>> THEN executeReturns([x EXCEPT !.deadlock = TRUE])
                  ELSE LET batch == [p \in Slice(ready, 0, x.maxConcurrency) |-> ready[p]]
                       IN  [executeNodes(x, batch) EXCEPT
                               !.pc = "await", !.batch = batch,
                               !.settled = [p \in DOMAIN batch |-> "none"]] : x \in {x0}} : TRUE

\* The for loop after the await: each node of the batch takes its result,
\* onNodeEnd fires, and a failure skips what depends on the node.
RECURSIVE settleBatch(_, _)
settleBatch(x0, p) ==
    CHOOSE settled \in
        {IF p > Len(x.batch) THEN x
         ELSE LET n == x.batch[p]
                  result == TaskResultOf(x.settled[p])
                  x1 == [x EXCEPT !.nodes[n].result = result,
                                  !.nodeResults = @ \cup {n},
                                  !.ended = Append(@, n)]
              IN  IF x.settled[p] = "ok"
                  THEN settleBatch([x1 EXCEPT !.nodes[n].status = "done"], p + 1)
                  ELSE settleBatch(
                         [x1 EXCEPT !.nodes = skipDownstream(
                                       [x1.nodes EXCEPT ![n].status = "failed"], n)],
                         p + 1) : x \in {x0}} : TRUE

\* An execute call that has not started; limit is opts?.maxConcurrency ??
\* DEFAULT_MAX_CONCURRENCY.
NewExecution(nodes, limit) ==
    [pc |-> "idle", nodes |-> nodes, maxConcurrency |-> limit,
     aborted |-> FALSE, batch |-> <<>>, settled |-> <<>>, nodeResults |-> {},
     success |-> FALSE, deadlock |-> FALSE,
     started |-> <<>>, ended |-> <<>>]

\* executor.execute(graph, opts) is called.
ExecuteGraph ==
    /\ dag.pc = "idle"
    /\ dag' = executeLoop(dag)
    /\ UNCHANGED exceptDag

\* The agent call of a running node of the batch returns or raises.
NodeSettles(p, o) ==
    /\ dag.pc = "await"
    /\ p \in DOMAIN dag.batch
    /\ dag.settled[p] = "none"
    /\ dag' = [dag EXCEPT !.settled[p] = o]
    /\ UNCHANGED exceptDag

\* Promise.allSettled of the batch resolves.
BatchSettled ==
    /\ dag.pc = "await"
    /\ \A p \in DOMAIN dag.batch : dag.settled[p] # "none"
    /\ dag' = [dag EXCEPT !.pc = "resume"]
    /\ UNCHANGED exceptDag

\* execute resumes after the await: the results, then the loop again.
ExecuteGraphResumes ==
    /\ dag.pc = "resume"
    /\ dag' = executeLoop(settleBatch(dag, 1))
    /\ UNCHANGED exceptDag

\* The caller aborts the signal given in the options.
Abort ==
    /\ dag.pc \in {"await", "resume"}
    /\ ~dag.aborted
    /\ dag' = [dag EXCEPT !.aborted = TRUE]
    /\ UNCHANGED exceptDag

NextExecutor ==
    \/ ExecuteGraph
    \/ \E p \in 1..MaxNodes, o \in NodeOutcomes : NodeSettles(p, o)
    \/ BatchSettled
    \/ ExecuteGraphResumes
    \/ Abort

\* The graphs createTaskGraph returns: every node pending, validate passed.
Graphs ==
    {nodes \in UNION {[1..n -> {NewNode(deps) :
                                    deps \in SUBSET (1..MaxNodes) \cup {{MaxNodes + 1}}}] :
                         n \in 1..MaxNodes} : validate(nodes)}

InitExecutor ==
    /\ OrchestratorAtRest
    /\ GatewayAtRest
    /\ RegistryAtRest
    /\ LimiterAtRest
    /\ CacheAtRest
    /\ calc = NoCalc
    /\ fa = NewExecute
    /\ srv = NoServer
    /\ dag \in {NewExecution(nodes, mc) : nodes \in Graphs, mc \in {DEFAULT_MAX_CONCURRENCY} \cup 0..MaxConc}

SpecExecutor == InitExecutor /\ [][NextExecutor]_vars

\* The scheduling of the event loop, and agent calls that return or raise.
FairExecutor ==
    /\ SpecExecutor
    /\ WF_vars(ExecuteGraph)
    /\ WF_vars(\E p \in 1..MaxNodes, o \in NodeOutcomes : NodeSettles(p, o))
    /\ WF_vars(BatchSettled)
    /\ WF_vars(ExecuteGraphResumes)

\* ------------------------------------------- DashboardServer: RunStatus
\* The callbacks of executeRun that assign run.state, and what they assign.
StateCallbacks == {"onThinking", "onStepStart", "onFinish", "onError"}

StateAfter(cb) ==
    CASE cb = "onThinking" -> "thinking"
      [] cb = "onStepStart" -> "executing"
      [] cb = "onFinish" -> "done"
      [] cb = "onError" -> "error"

\* The last invocation of one of the callbacks cbs (0 when there was none),
\* restricted to those of task k of step s when s is not 0.
LastCall(cbs, s, k) ==
    LET seen == {n \in 1..Len(events) :
                    /\ events[n].cb \in cbs
                    /\ s # 0 => events[n].step = s /\ events[n].task = k}
    IN  IF seen = {} THEN 0 ELSE CHOOSE n \in seen : \A m \in seen : m <= n

\* run.steps while run() is pending: onStepStart pushes the step with its
\* tasks running, onTaskEnd stores done or failed.
shownSteps ==
    LET started == SelectSeq(events, LAMBDA e : e.cb = "onStepStart")
    IN  [n \in 1..Len(started) |->
            [stepNumber |-> started[n].step,
             tasks |-> [k \in 1..Len(state.steps[n].tasks) |->
                          [id |-> state.steps[n].tasks[k].id,
                           status |-> LET e == LastCall({"onTaskEnd"}, started[n].step, k)
                                      IN  IF e = 0 THEN "running"
                                          ELSE IF events[e].arg = "ok" THEN "done"
                                          ELSE "failed"]]]]

\* The RunStatus that handleSubmitGoal created and executeRun maintains: the
\* callbacks assign state, finalAnswer and error while run() is pending; once
\* run() has resolved, lines 331-336 take over the steps of the result and
\* fill in finalAnswer and state, and when it rejected the catch block of
\* lines 337-343 records the error.
RunStatus ==
    LET n == LastCall(StateCallbacks, 0, 0)
        f == LastCall({"onFinish"}, 0, 0)
        e == LastCall({"onError"}, 0, 0)
        st == IF n = 0 THEN "thinking" ELSE StateAfter(events[n].cb)
        answer == IF f = 0 THEN Undefined ELSE events[f].arg
    IN  [state |-> IF pc = "rejected" THEN "error"
                   ELSE IF pc = "returned" /\ state.status = "done" THEN "done"
                   ELSE st,
         steps |-> IF pc = "returned" THEN state.steps ELSE shownSteps,
         finalAnswer |-> IF pc = "returned" /\ Truthy(state.finalAnswer) /\ ~Truthy(answer)
                         THEN state.finalAnswer
                         ELSE answer,
         error |-> IF pc = "rejected" THEN "Error: " \o CallbackError
                   ELSE IF e = 0 THEN Undefined ELSE events[e].arg]

\* --------------------------------------- DashboardServer: runs and store
\* randomUUID: an identifier not handed out before, here the number of the
\* submission.
RunIds == 1..MaxSubmits

\* A DashboardServer after construction: runs is the Map of line 27 as the
\* list of its keys in insertion order, objs the RunStatus objects those keys
\* and the closures of executeRun refer to, store the rows of the RunStore
\* (none without a store), exec the position of run() for each run. deleted
\* and last record the runs a DELETE answered 200 for and the last response.
NoResponse == [op |-> "none", runId |-> 0, status |-> 0]

NewServer(maxRuns, hasStore) ==
    [maxRuns |-> maxRuns, hasStore |-> hasStore, runs |-> <<>>, objs |-> <<>>,
     store |-> <<>>, exec |-> <<>>, submitted |-> 0, deleted |-> {},
     last |-> NoResponse]

\* json(res, status, body)
Respond(x, op, runId, status) ==
    [x EXCEPT !.last = [op |-> op, runId |-> runId, status |-> status]]

Keys(runs) == {runs[n] : n \in 1..Len(runs)}

\* Map.delete: the key leaves the list, the order of the others is kept.
RunsDelete(runs, runId) == SelectSeq(runs, LAMBDA k : k # runId)

\* persistRun: runStore?.update(run), which is INSERT OR REPLACE of the row.
persistRun(x, runId) ==
    IF x.hasStore THEN [x EXCEPT !.store = (runId :> x.objs[runId]) @@ @] ELSE x

\* The callbacks of executeRun: each works on the run object it closed over,
\* whether or not the Map still holds it.
onRunCallback(x, runId, cb) ==
    CASE cb = "onThinking" -> [x EXCEPT !.objs[runId].state = "thinking"]
      [] cb = "onStepStart" ->
            [x EXCEPT !.objs[runId].state = "executing", !.objs[runId].steps = @ + 1]
      [] cb = "onStepEnd" -> persistRun(x, runId)
      [] cb = "onFinish" ->
            persistRun([x EXCEPT !.objs[runId].state = "done",
                                 !.objs[runId].finished = TRUE], runId)
      [] cb = "onError" ->
            persistRun([x EXCEPT !.objs[runId].state = "error",
                                 !.objs[runId].finished = TRUE], runId)

\* executeRun up to its await: the run is persisted, run() is called and
\* runs up to its first await, the thinker call of the first iteration.
executeRunStarts(x, runId, request) ==
    LET x1 == persistRun(x, runId)
        x2 == [x1 EXCEPT !.exec = (runId :> [pc |-> "think", i |-> 0,
                                             maxSteps |-> request.maxSteps]) @@ @]
    IN  onRunCallback(x2, runId, "onThinking")

\* Mutant of handleSubmitGoal: the oldest run is deleted only when the Map is
\* over the cap.
handleSubmitGoalOverCap(x, runId, request) ==
    IF ~request.valid THEN Respond(x, "POST", 0, 400)
    ELSE LET run == [runId |-> runId, state |-> "thinking", steps |-> 0,
                     startedAt |-> x.submitted + 1, finished |-> FALSE]
             kept == IF Len(x.runs) > x.maxRuns /\ x.runs # <<>>
                     THEN RunsDelete(x.runs, Head(x.runs))
                     ELSE x.runs
             x1 == [x EXCEPT !.runs = Append(kept, runId),
                             !.objs = (runId :> run) @@ @,
                             !.submitted = @ + 1]
         IN  executeRunStarts(Respond(x1, "POST", runId, 201), runId, request)

\* handleSubmitGoal: a body that does not parse or validate is answered 400;
\* otherwise the run is created, the first key of the Map deleted when the
\* Map is at the cap, the run set, 201 answered and executeRun called.
handleSubmitGoal(x, runId, request) ==
    IF ~request.valid THEN Respond(x, "POST", 0, 400)
    ELSE LET run == [runId |-> runId, state |-> "thinking", steps |-> 0,
                     startedAt |-> x.submitted + 1, finished |-> FALSE]
             kept == IF Len(x.runs) >= x.maxRuns /\ x.runs # <<>>
                     THEN RunsDelete(x.runs, Head(x.runs))
                     ELSE x.runs
             x1 == [x EXCEPT !.runs = Append(kept, runId),
                             !.objs = (runId :> run) @@ @,
                             !.submitted = @ + 1]
         IN  executeRunStarts(Respond(x1, "POST", runId, 201), runId, request)

\* handleGetRun: this.runs.get(runId) ?? this.runStore?.get(runId)
handleGetRun(x, runId) ==
    IF runId \in Keys(x.runs) \/ runId \in DOMAIN x.store
    THEN Respond(x, "GET", runId, 200)
    ELSE Respond(x, "GET", runId, 404)

\* handleDeleteRun: the run is deleted from the Map and from the store; 404
\* when it was in neither.
handleDeleteRun(x, runId) ==
    LET inMemory == runId \in Keys(x.runs)
        fromStore == runId \in DOMAIN x.store
        x1 == [x EXCEPT !.runs = RunsDelete(@, runId),
                        !.store = [k \in DOMAIN @ \ {runId} |-> @[k]]]
    IN  IF ~inMemory /\ ~fromStore THEN Respond(x1, "DELETE", runId, 404)
        ELSE Respond([x1 EXCEPT !.deleted = @ \cup {runId}], "DELETE", runId, 200)

\* POST /api/runs
SubmitGoal(runId, request) ==
    /\ srv.submitted < MaxSubmits
    /\ runId = srv.submitted + 1
    /\ srv' = handleSubmitGoal(srv, runId, request)
    /\ srv' # srv
    /\ UNCHANGED exceptServer

\* GET /api/runs/:id
GetRun(runId) ==
    /\ srv' = handleGetRun(srv, runId)
    /\ srv' # srv
    /\ UNCHANGED exceptServer

\* DELETE /api/runs/:id
DeleteRun(runId) ==
    /\ srv' = handleDeleteRun(srv, runId)
    /\ srv' # srv
    /\ UNCHANGED exceptServer

\* run() resumes with the thinker's directive: finish, execute (the step is
\* pushed and its tasks dispatched), or a failure that the catch block
\* reports.
ThinkerAnswers(runId, reply) ==
    /\ runId \in DOMAIN srv.exec
    /\ srv.exec[runId].pc = "think"
    /\ srv' = CASE reply = "finish" ->
                     [onRunCallback(srv, runId, "onFinish") EXCEPT !.exec[runId].pc = "over"]
                [] reply = "execute" ->
                     [onRunCallback(srv, runId, "onStepStart") EXCEPT !.exec[runId].pc = "step"]
                [] reply = "throw" ->
                     [onRunCallback(srv, runId, "onError") EXCEPT !.exec[runId].pc = "over"]
    /\ UNCHANGED exceptServer

\* executeStep has returned: onStepEnd, then the head of the loop, which
\* either thinks again or leaves the loop for the forced finish.
StepEnds(runId) ==
    /\ runId \in DOMAIN srv.exec
    /\ srv.exec[runId].pc = "step"
    /\ LET x1 == onRunCallback(srv, runId, "onStepEnd")
           n == srv.exec[runId].i + 1
       IN  srv' = IF n < srv.exec[runId].maxSteps
                  THEN [onRunCallback(x1, runId, "onThinking") EXCEPT
                            !.exec[runId].pc = "think", !.exec[runId].i = n]
                  ELSE [x1 EXCEPT !.exec[runId].pc = "force", !.exec[runId].i = n]
    /\ UNCHANGED exceptServer

\* forceFinish has resolved (it never rejects): onFinish.
ForceFinishes(runId) ==
    /\ runId \in DOMAIN srv.exec
    /\ srv.exec[runId].pc = "force"
    /\ srv' = [onRunCallback(srv, runId, "onFinish") EXCEPT !.exec[runId].pc = "over"]
    /\ UNCHANGED exceptServer

Requests == [valid : BOOLEAN, maxSteps : 1..MaxSteps]

NextServer ==
    \/ \E runId \in RunIds, request \in Requests : SubmitGoal(runId, request)
    \/ \E runId \in RunIds : GetRun(runId)
    \/ \E runId \in RunIds : DeleteRun(runId)
    \/ \E runId \in RunIds, reply \in {"finish", "execute", "throw"} :
          ThinkerAnswers(runId, reply)
    \/ \E runId \in RunIds : StepEnds(runId)
    \/ \E runId \in RunIds : ForceFinishes(runId)

\* A server with or without a run store and a cap of at least one run.
InitServer ==
    /\ OrchestratorAtRest
    /\ GatewayAtRest
    /\ RegistryAtRest
    /\ LimiterAtRest
    /\ CacheAtRest
    /\ calc = NoCalc
    /\ fa = NewExecute
    /\ dag = NoGraph
    /\ srv \in {NewServer(cap, hasStore) : cap \in 1..MaxRuns, hasStore \in BOOLEAN}

SpecServer == InitServer /\ [][NextServer]_vars

\* ================================================================ claims
Terminal(status) == status \in {"done", "error"}

NonEmptyString(x) == x # Undefined /\ x # ""

Indices(cb, step, task) ==
    {e \in 1..Len(events) :
        events[e].cb = cb /\ events[e].step = step /\ events[e].task = task}

TaskCallbacks == {"onTaskStart", "onTaskChunk", "onTaskEnd"}

\* ------------------------------------------------------------------- C1
\* C1 (as claimed): in every Run returned by run(), whatever the thinker, the
\* agents and the callbacks do, status took exactly one terminal value, as
\* its last value, and finishedAt was assigned exactly once.
C1_TerminalOnce ==
    pc = "returned" =>
        /\ finishedAtWrites = 1
        /\ Terminal(statusLog[Len(statusLog)])
        /\ \A n \in 1..Len(statusLog) - 1 : ~Terminal(statusLog[n])

\* ------------------------------------------------------------------- C2
\* C2 (as claimed): status done implies a non-empty finalAnswer, status
\* error implies a non-empty error, so a terminal run has one of the two.
C2_AnswerOrError ==
    /\ state.status = "done" => NonEmptyString(state.finalAnswer)
    /\ state.status = "error" => NonEmptyString(state.error)

\* ------------------------------------------------------------------- C3
\* C3 (as claimed): the callbacks of step s fire in the order onThinking(s),
\* onStepStart(s), the task callbacks of s, onStepEnd(s); no task callback
\* of s, a streamed chunk included, fires after onStepEnd(s); onStepEnd(s)
\* precedes onThinking(s + 1).
C3_CallbackOrder ==
    \A e \in 1..Len(events) :
        LET ev == events[e]
            Before(cb, step) == \E d \in 1..e - 1 : events[d].cb = cb /\ events[d].step = step
        IN  /\ ev.cb = "onStepStart" => Before("onThinking", ev.step)
            /\ ev.cb \in TaskCallbacks =>
                  Before("onStepStart", ev.step) /\ ~Before("onStepEnd", ev.step)
            /\ ev.cb = "onStepEnd" => Before("onStepStart", ev.step)
            /\ ev.cb = "onThinking" /\ ev.step > 1 => Before("onStepEnd", ev.step - 1)

\* ------------------------------------------------------------------- C4
\* The forced-finish reply is a valid finish directive: a JSON finish with a
\* non-empty answer, or a truncated one whose answer can be salvaged.
ValidFinish(reply) ==
    /\ reply.kind = "return"
    /\ \/ /\ reply.raw.strict \/ reply.raw.inner = "ok"
          /\ reply.raw.obj.action = "finish"
          /\ NonEmptyString(reply.raw.obj.answer)
       \/ /\ ~reply.raw.strict
          /\ reply.raw.inner # "ok"
          /\ reply.raw.finishMarker
          /\ NonEmptyString(reply.raw.answerTail)
          /\ Len(reply.raw.answerTail) >= 10

FinishAnswer(reply) ==
    IF reply.raw.strict \/ reply.raw.inner = "ok" THEN reply.raw.obj.answer
    ELSE reply.raw.answerTail

\* One markdown section per done task, in step order and task order.
RECURSIVE SectionsFrom(_, _)
SectionsFrom(s, k) ==
    IF s > Len(state.steps) THEN <<>>
    ELSE IF k > Len(state.steps[s].tasks) THEN SectionsFrom(s + 1, 1)
    ELSE LET t == state.steps[s].tasks[k]
         IN  (IF t.status = "done" THEN <<"## " \o t.id \o "\n" \o t.result.output>> ELSE <<>>)
             \o SectionsFrom(s, k + 1)

RECURSIVE Paragraphs(_)
Paragraphs(seq) == IF Len(seq) = 1 THEN seq[1] ELSE seq[1] \o "\n\n" \o Paragraphs(Tail(seq))

ExpectedSynthesis ==
    IF SectionsFrom(1, 1) = <<>> THEN "No results collected." ELSE Paragraphs(SectionsFrom(1, 1))

\* C4: a run that left the loop by exhausting maxSteps ends done, never
\* error, whatever the thinker returned or raised on the forced call; its
\* finalAnswer is the thinker's answer when that call gave a valid finish,
\* else the emergency synthesis ("No results collected." when no task is done).
C4_ForcedFinish ==
    forceReply.kind # "none" =>
        /\ pc = "returned"
        /\ state.status = "done"
        /\ state.error = Undefined
        /\ state.finalAnswer = IF ValidFinish(forceReply) THEN FinishAnswer(forceReply)
                               ELSE ExpectedSynthesis

C4_Witness ==
    /\ forceReply.kind = "raise"
    /\ pc = "returned"
    /\ Len(state.steps) = 2
    /\ \E k \in 1..Len(state.steps[1].tasks) : state.steps[1].tasks[k].status = "done"
    /\ \E k \in 1..Len(state.steps[2].tasks) : state.steps[2].tasks[k].status = "failed"

\* ------------------------------------------------------------------- C5
\* C5: once the thinker has raised inside a Think of the loop, the run has
\* returned with status error and the exception's message as error, onError
\* fired exactly once, with that message, onFinish never fired, the steps
\* recorded before are kept and no thinker call is pending or made again.
C5_ThinkerRaises ==
    raised.happened =>
        /\ pc = "returned"
        /\ state.status = "error"
        /\ state.error = raised.message
        /\ Cardinality(Indices("onError", 0, 0)) = 1
        /\ \A e \in Indices("onError", 0, 0) : events[e].arg = raised.message
        /\ Indices("onFinish", 0, 0) = {}
        /\ state.steps = raised.steps
        /\ forceReply.kind = "none"

C5_Witness ==
    /\ raised.happened
    /\ raised.message = "LLM is down"
    /\ Len(state.steps) = 1
    /\ attempt = 1

\* ------------------------------------------------------------------- C6
TaskOf(o) == state.steps[o.step].tasks[o.task]

TerminalTask(t) == t.status \in {"done", "failed"}

AllTerminal(step) == \A k \in 1..Len(step.tasks) : TerminalTask(step.tasks[k])

\* executeStep has returned for step s.
StepOver(s) == s < Len(state.steps) \/ (s = Len(state.steps) /\ pc \notin {"window", "resume"})

\* The messages a failing Think leaves in state.error.
ThinkErrors ==
    ThinkerMessages \cup
    {"Orchestrator returned invalid JSON", "Orchestrator returned no JSON object",
     "no tasks", "no answer", "Unknown orchestrator action: dance"}

\* C6: a task whose adapter raised or returned a non-ok result is failed and
\* its TaskResult holds that outcome; its siblings reach their own terminal
\* status (decided by their own outcome) before the step returns; the run
\* is never in error because of a task; after the step the thinker is
\* consulted again.
C6_FailureIsolation ==
    /\ [](/\ \A o \in outcomes :
                /\ TaskOf(o).status = IF o.outcome = "ok" THEN "done" ELSE "failed"
                /\ TaskOf(o).result.status =
                      CASE o.outcome = "ok" -> "ok"
                        [] o.outcome = "timeout" -> "timeout"
                        [] OTHER -> "error"
          /\ \A s \in 1..Len(state.steps) : StepOver(s) => AllTerminal(state.steps[s])
          /\ state.status = "error" => raised.happened \/ attempt = 1
          /\ state.status = "error" => state.error \in ThinkErrors)
    /\ [][pc = "stepReturned" /\ pc' # pc =>
              pc' \in {"think", "force"} /\ state'.status = "thinking"]_vars

C6_Witness ==
    /\ pc = "think"
    /\ Len(state.steps) = 1
    /\ Len(state.steps[1].tasks) = 2
    /\ state.steps[1].tasks[1].status = "failed"
    /\ state.steps[1].tasks[2].status = "done"
    /\ [step |-> 1, task |-> 1, outcome |-> "raise"] \in outcomes

\* ------------------------------------------------------------------- C7
RunningCount(step) ==
    Cardinality({k \in 1..Len(step.tasks) : step.tasks[k].status = "running"})

WindowOf(k) == (k - 1) \div maxConcurrency

\* C7: at most maxConcurrency tasks of a step are running at a time; tasks
\* are started in list order, window by window, each window being the next
\* maxConcurrency tasks, and no task of a later window is started before
\* every task of the earlier windows is terminal.
C7_Windows ==
    \A s \in 1..Len(state.steps) :
        LET tasks == state.steps[s].tasks
            Started(k) == tasks[k].status # "pending"
        IN  /\ RunningCount(state.steps[s]) <= maxConcurrency
            /\ \A j, k \in 1..Len(tasks) :
                  /\ j < k =>
                        \A d \in Indices("onTaskStart", s, j), e \in Indices("onTaskStart", s, k) : d < e
                  /\ Started(k) => Indices("onTaskStart", s, k) # {}
                  /\ maxConcurrency = 0 => ~Started(k)
                  /\ maxConcurrency > 0 /\ WindowOf(j) = WindowOf(k) => (Started(j) <=> Started(k))
                  /\ maxConcurrency > 0 /\ WindowOf(j) < WindowOf(k) /\ Started(k)
                        => TerminalTask(tasks[j])

C7_Witness ==
    /\ maxConcurrency = 1
    /\ pc = "window"
    /\ Len(CurrentStep(Cur).tasks) = 2
    /\ CurrentStep(Cur).tasks[1].status = "failed"
    /\ CurrentStep(Cur).tasks[2].status = "running"

\* ------------------------------------------------------------------- C8
\* C8 (as claimed): for every maxConcurrency given in the options, when the
\* adapter calls settle, executeStep returns, and every task of the step is
\* done or failed when it does.
C8_StepTerminates ==
    /\ [](pc = "stepReturned" => AllTerminal(CurrentStep(Cur)))
    /\ (pc = "window") ~> (pc = "stepReturned")

\* ------------------------------------------------------------------- C9
\* C9: once executeStep has returned, every task of the step has had exactly
\* one onTaskStart and exactly one onTaskEnd, the end after the start, also
\* a task without an agent or whose adapter raised; no onTaskEnd ever
\* comes without an earlier onTaskStart.
C9_StartEndPairs ==
    \A s \in 1..Len(state.steps) : \A k \in 1..Len(state.steps[s].tasks) :
        /\ \A e \in Indices("onTaskEnd", s, k) : \E d \in Indices("onTaskStart", s, k) : d < e
        /\ StepOver(s) =>
              /\ Cardinality(Indices("onTaskStart", s, k)) = 1
              /\ Cardinality(Indices("onTaskEnd", s, k)) = 1

C9_Witness ==
    /\ pc = "stepReturned"
    /\ Len(CurrentStep(Cur).tasks) = 2
    /\ [step |-> Len(state.steps), task |-> 2, outcome |-> "raise"] \in outcomes
    /\ [step |-> Len(state.steps), task |-> 1, outcome |-> "ok"] \in outcomes

\* ------------------------------------------------------------------ C10
Rank(status) == CASE status = "pending" -> 0 [] status = "running" -> 1 [] OTHER -> 2

\* C10: a StepTask's status only moves forward along pending, running,
\* done or failed, a terminal status never changes, and the result is
\* present exactly when the status is done or failed.
C10_TaskStatus ==
    /\ [](\A s \in 1..Len(state.steps) : \A k \in 1..Len(state.steps[s].tasks) :
            LET t == state.steps[s].tasks[k]
            IN  /\ t.status \in {"pending", "running", "done", "failed"}
                /\ t.result # NoResult <=> TerminalTask(t))
    /\ [][\A s \in 1..Len(state.steps) : \A k \in 1..Len(state.steps[s].tasks) :
            LET t == state.steps[s].tasks[k]
                u == state'.steps[s].tasks[k]
            IN  /\ Len(state'.steps) >= Len(state.steps)
                /\ Rank(u.status) >= Rank(t.status)
                /\ TerminalTask(t) => u = t]_vars

C10_Witness ==
    /\ pc = "window"
    /\ Len(CurrentStep(Cur).tasks) = 2
    /\ CurrentStep(Cur).tasks[1].status = "done"
    /\ CurrentStep(Cur).tasks[1].result # NoResult
    /\ CurrentStep(Cur).tasks[2].status = "running"
    /\ CurrentStep(Cur).tasks[2].result = NoResult

\* ------------------------------------------------------------------ C11
\* The identity of a recorded step: its number and the ids of its tasks.
StepShape(step) == [stepNumber |-> step.stepNumber, ids |-> [k \in 1..Len(step.tasks) |-> step.tasks[k].id]]

TaskStarts == {e \in 1..Len(events) : events[e].cb = "onTaskStart"}

\* Every Think of the run so far was answered with an execute directive:
\* each onThinking(s) was followed by the recording of step s.
EveryThinkExecuted == \A e \in 1..Len(events) : events[e].cb = "onThinking" => events[e].step <= Len(state.steps)

\* C11: steps is append-only (a step once recorded keeps its place, number
\* and tasks), never longer than maxSteps, the k-th step has stepNumber k
\* and at least one task; a returned run whose every Think was answered
\* with execute has exactly maxSteps steps; once the budget is exhausted no
\* step is recorded and no task started.
C11_StepBudget ==
    /\ [](/\ Len(state.steps) <= maxSteps
          /\ \A k \in 1..Len(state.steps) :
                state.steps[k].stepNumber = k /\ Len(state.steps[k].tasks) >= 1
          /\ pc = "returned" /\ EveryThinkExecuted => Len(state.steps) = maxSteps)
    /\ [][/\ Len(state'.steps) \in {Len(state.steps), Len(state.steps) + 1}
          /\ \A k \in 1..Len(state.steps) : StepShape(state'.steps[k]) = StepShape(state.steps[k])
          /\ i >= maxSteps => state'.steps = state.steps /\ TaskStarts' = TaskStarts]_vars

C11_Witness ==
    /\ pc = "returned"
    /\ maxSteps = 2
    /\ EveryThinkExecuted
    /\ Len(state.steps) = 2
    /\ forceReply.kind = "return"

\* ------------------------------------------------------------------ C12
Named(h) == {n \in 1..Len(agents) : agents[n].name = h}

Capable(h) == {n \in 1..Len(agents) : h \in agents[n].capabilities}

Earliest(S) == CHOOSE n \in S : \A m \in S : n <= m

\* The adapter the routing rules name for hint h, in a non-empty registry.
ExpectedAdapter(h) ==
    IF h # Undefined /\ Named(h) # {} THEN h
    ELSE IF h # Undefined /\ Capable(h) # {} THEN agents[Earliest(Capable(h))].name
    ELSE agents[1].name

CallsOf(s, k) == {c \in calls : c.step = s /\ c.task = k}

\* C12: a started task is executed by exactly one adapter: the one named by
\* its hint, else the first registered adapter having the hint as a
\* capability, else (or without hint) the first registered adapter; with an
\* empty registry the task is failed with "No agent available" and no
\* adapter is called.
C12_Routing ==
    \A s \in 1..Len(state.steps) : \A k \in 1..Len(state.steps[s].tasks) :
        LET t == state.steps[s].tasks[k]
        IN  t.status # "pending" =>
                IF Len(agents) = 0
                THEN /\ t.status = "failed"
                     /\ t.result = [status |-> "error", output |-> "No agent available"]
                     /\ CallsOf(s, k) = {}
                     /\ \A o \in outcomes : ~(o.step = s /\ o.task = k)
                ELSE /\ Cardinality(CallsOf(s, k)) = 1
                     /\ \A c \in CallsOf(s, k) : c.adapter = ExpectedAdapter(t.agent)

C12_Witness ==
    /\ agents = <<Researcher, Reviewer, Coder>>
    /\ pc = "returned"
    /\ Len(state.steps) = 1
    /\ Len(state.steps[1].tasks) = 2
    /\ state.steps[1].tasks[1].agent = "coder"
    /\ state.steps[1].tasks[2].agent = "code"
    /\ calls = {[step |-> 1, task |-> 1, adapter |-> "coder"],
                [step |-> 1, task |-> 2, adapter |-> "reviewer"]}

\* ------------------------------------------------------------------ C13
\* The frame in asked/replies is that of a Think of the loop.
ThinkFrame == Len(asked) > 0 /\ asked[1].suffix = NoSuffix

\* The output parses as JSON (as a whole or its {...} part).
IsJson(raw) == raw.strict \/ raw.inner = "ok"

\* The parsed value is a directive: execute with tasks, or finish with an answer.
WellFormed(obj) ==
    \/ obj.action = "execute" /\ Len(obj.tasks) > 0
    \/ obj.action = "finish" /\ NonEmptyString(obj.answer)

Salvageable(raw) == raw.finishMarker /\ NonEmptyString(raw.answerTail) /\ Len(raw.answerTail) >= 10

\* The reply is an output that cannot be turned into a directive.
FailedOutput(reply) ==
    /\ reply.kind = "return"
    /\ IF IsJson(reply.raw) THEN ~WellFormed(reply.raw.obj) ELSE ~Salvageable(reply.raw)

SchemaViolation(obj) ==
    IF obj.action \notin {"execute", "finish"} THEN "Unknown orchestrator action: " \o obj.action
    ELSE IF obj.action = "execute" THEN "no tasks"
    ELSE "no answer"

FailureMessage(raw) ==
    IF IsJson(raw) THEN SchemaViolation(raw.obj)
    ELSE IF raw.inner = "bad" THEN "Orchestrator returned invalid JSON"
    ELSE "Orchestrator returned no JSON object"

SchemaBreach(reply) == reply.kind = "return" /\ IsJson(reply.raw) /\ ~WellFormed(reply.raw.obj)

\* C14 (as claimed): a run in whose Think the thinker gave an output that
\* is JSON but violates the directive schema has ended in error with the
\* message matching that output, onError fired once with it, and no step
\* was recorded from that Think.
C14_SchemaAborts ==
    pc = "returned" /\ ThinkFrame =>
        \A r \in 1..Len(replies) :
            SchemaBreach(replies[r]) =>
                /\ state.status = "error"
                /\ state.error = SchemaViolation(replies[r].raw.obj)
                /\ Cardinality(Indices("onError", 0, 0)) = 1
                /\ \A e \in Indices("onError", 0, 0) : events[e].arg = state.error
                /\ Len(state.steps) = Len(asked[1].context)

\* C15 (GatewayClient.call, client.ts 341-397).
CallEntries(c) == {e \in gw.pending : e.kind = "call" /\ e.who = c}

IdsInUse ==
    {callers[c].id : c \in {d \in GwCallers : callers[d].id # 0}}
    \cup {sockets[a].connectId : a \in {b \in 1..Len(sockets) : sockets[b].connectId # 0}}

\* One entry per call under an id no other request has; the entry is in
\* the table exactly while the call's timer is armed, leaves it once, and a
\* call settled by a response, its timer or a close has left it.
EntryMatchesCall ==
    \A c \in GwCallers :
        /\ Cardinality(CallEntries(c)) <= 1
        /\ \A e \in CallEntries(c) : e.id = callers[c].id
        /\ callers[c].timer <=> CallEntries(c) # {}
        /\ callers[c].id # 0 =>
              /\ \A d \in GwCallers \ {c} : callers[d].id # callers[c].id
              /\ \A a \in 1..Len(sockets) : sockets[a].connectId # callers[c].id
              /\ callers[c].removed = (IF CallEntries(c) = {} THEN 1 ELSE 0)
        /\ callers[c].id = 0 => callers[c].removed = 0
        /\ callers[c].settleCalls <= 1
        /\ callers[c].by \in {"response", "timeout", "close"} =>
              /\ callers[c].removed = 1
              /\ callers[c].settleCalls = 1
        /\ callers[c].pc = "awaitResponse" =>
              /\ CallEntries(c) # {}
              /\ callers[c].by = "none"
        /\ callers[c].by = "none" <=> callers[c].callResult.status = "none"

\* A call registers its entry in the step that draws its id.
RegistersOnce ==
    \A c \in GwCallers :
        callers[c].id = 0 /\ callers'[c].id # 0 =>
            /\ callers'[c].id \notin IdsInUse
            /\ gw'.pending = gw.pending \cup {[id |-> callers'[c].id, kind |-> "call", who |-> c]}

\* A settled call keeps its outcome.
SettlesOnce ==
    \A c \in GwCallers :
        callers[c].callResult.status # "none" =>
            /\ callers'[c].callResult = callers[c].callResult
            /\ callers'[c].by = callers[c].by

\* The timer of one call removes that call's entry and nothing else.
TimeoutIsLocal ==
    \A c \in GwCallers :
        CallTimeout(c) =>
            /\ sockets' = sockets
            /\ CallEntries(c) # {}
            /\ gw' = [gw EXCEPT !.pending = @ \ CallEntries(c)]
            /\ \A d \in GwCallers \ {c} : callers'[d] = callers[d]
            /\ callers[c].by = "none" =>
                  callers'[c].callResult =
                      [status |-> "rejected",
                       value |-> "Request " \o Method(callers[c].op) \o " timed out after 30000ms"]

\* A close event empties both tables and rejects what was in them (a call
\* whose send had thrown is already rejected and keeps that error).
CloseRejectsAll ==
    \A a \in 1..Len(sockets) :
        sockets[a].ready # "closed" /\ sockets'[a].ready = "closed" =>
            LET message == "Connection closed (code=" \o ToString(sockets'[a].code) \o ")"
                rejected == [status |-> "rejected", value |-> message]
            IN  /\ gw'.pending = {}
                /\ gw'.pendingChats = {}
                /\ sockets'[a].code \in CloseCodes
                /\ \A e \in gw.pending :
                      e.kind = "call" =>
                          /\ callers'[e.who].settleCalls = callers[e.who].settleCalls + 1
                          /\ callers[e.who].by = "none" =>
                                /\ callers'[e.who].callResult = rejected
                                /\ callers'[e.who].result = rejected
                /\ \A e \in gw.pendingChats : callers'[e.caller].result = rejected

\* C15: every call has one pending entry under a fresh id, which leaves the
\* table exactly once (response, timeout or socket close), and its promise
\* settles once; a timeout touches neither the socket nor the other entries;
\* a close rejects every entry of both tables with "Connection closed
\* (code=<n>)" and leaves the tables empty.
C15_PendingLifecycle ==
    /\ []EntryMatchesCall
    /\ [][RegistersOnce /\ SettlesOnce /\ TimeoutIsLocal /\ CloseRejectsAll]_vars

\* One call has timed out while the other was rejected by a close with code 1006.
C15_Witness ==
    \E c, d \in GwCallers :
        /\ callers[c].by = "timeout"
        /\ callers[d].by = "close"
        /\ callers[d].callResult.value = "Connection closed (code=1006)"
        /\ callers[d].removed = 1

\* C16 (GatewayClient.chat / handleChatEvent, client.ts 408-467).
Chatting(c) == callers[c].pc = "awaitChat"

EventHandled == Len(wire'.events) = Len(wire.events) + 1

LastEvent == wire'.events[Len(wire'.events)]

\* The event of one run changes nothing of a chat of another run.
OwnEventsOnly ==
    EventHandled =>
        /\ \A c \in GwCallers :
              callers'[c] # callers[c] => Chatting(c) /\ callers[c].runId = LastEvent.runId
        /\ \A e \in gw.pendingChats :
              e.runId # LastEvent.runId => e \in gw'.pendingChats

\* A chat resolved by an event holds the text of a final event of its own run.
OwnText(c) ==
    \E n \in 1..Len(wire.events) :
        /\ wire.events[n].runId = callers[c].runId
        /\ wire.events[n].state = "final"
        /\ callers[c].result = [status |-> "resolved",
                                value |-> callers[c].runId \o "#" \o ToString(n)]

OwnFinalText ==
    \A c \in GwCallers :
        /\ callers[c].chatBy = "final" => OwnText(c)
        /\ callers[c].op = "chat" /\ callers[c].result.status = "resolved" =>
              callers[c].chatBy = "final"
        /\ \A d \in GwCallers \ {c} :
              callers[c].runId # Undefined => callers[d].runId # callers[c].runId

\* C16: chats in flight at the same time have distinct run ids; a chat is
\* settled only by events that carry its own run id, and the text it
\* resolves with is the text of a final event of its own run.
C16_ChatsByRunId == []OwnFinalText /\ [][OwnEventsOnly]_vars

\* Two chats were registered before any event arrived; the final event of
\* the second came first, and each got its own text.
C16_Witness ==
    /\ callers[1].registeredAt = 0
    /\ callers[2].registeredAt = 0
    /\ callers[1].result = [status |-> "resolved", value |-> "run-1#2"]
    /\ callers[2].result = [status |-> "resolved", value |-> "run-2#1"]

\* C17 (GatewayClient.chat / handleChatEvent, client.ts 408-427, 459-466).
ChatEntry(c) == [runId |-> callers[c].runId, caller |-> c]

\* The terminal events of c's run that arrived after c was registered.
TerminalsOf(c) ==
    {n \in callers[c].registeredAt + 1..Len(wire.events) :
        /\ wire.events[n].runId = callers[c].runId
        /\ wire.events[n].state \in {"final", "error"}}

FirstTerminal(c) == CHOOSE n \in TerminalsOf(c) : \A m \in TerminalsOf(c) : n <= m

ClosedMessages ==
    {"Connection closed (code=" \o ToString(sockets[a].code) \o ")" :
        a \in {b \in 1..Len(sockets) : sockets[b].ready = "closed"}}

\* The entry and the timer of a chat exist exactly while it is registered and
\* unsettled; it settles once, with what its first terminal event, its timer
\* or a close gave it.
ChatSettlement ==
    \A c \in GwCallers :
        /\ Chatting(c) <=> \E e \in gw.pendingChats : e.caller = c
        /\ \A e \in gw.pendingChats : e.caller = c => e = ChatEntry(c)
        /\ Chatting(c) <=> callers[c].chatTimer
        /\ Chatting(c) => /\ callers[c].chatBy = "none"
                          /\ callers[c].result.status = "none"
                          /\ callers[c].chatRemoved = 0
                          /\ TerminalsOf(c) = {}
        /\ callers[c].chatSettleCalls <= 1
        /\ callers[c].chatRemoved <= 1
        /\ callers[c].chatBy # "none" =>
              /\ callers[c].pc = "done"
              /\ callers[c].chatRemoved = 1
              /\ callers[c].chatSettleCalls = 1
        /\ callers[c].chatBy = "final" =>
              /\ TerminalsOf(c) # {}
              /\ wire.events[FirstTerminal(c)].state = "final"
              /\ callers[c].result =
                    [status |-> "resolved",
                     value |-> callers[c].runId \o "#" \o ToString(FirstTerminal(c))]
        /\ callers[c].chatBy = "error" =>
              /\ TerminalsOf(c) # {}
              /\ wire.events[FirstTerminal(c)].state = "error"
              /\ callers[c].result = [status |-> "rejected", value |-> "model overloaded"]
        /\ callers[c].chatBy = "timeout" =>
              callers[c].result = [status |-> "rejected",
                                   value |-> "Chat response timed out after 120000ms"]
        /\ callers[c].chatBy = "close" =>
              /\ callers[c].result.status = "rejected"
              /\ callers[c].result.value \in ClosedMessages

\* A settled chat never changes again, and an event that is neither final
\* nor error changes nothing of the client.
ChatSettlesOnce ==
    /\ \A c \in GwCallers : callers[c].chatBy # "none" => callers'[c] = callers[c]
    /\ EventHandled /\ LastEvent.state \notin {"final", "error"} =>
          /\ callers' = callers
          /\ gw' = gw
          /\ sockets' = sockets

\* C17: a registered chat settles exactly once and its pendingChats entry
\* is removed in that step; it resolves with the text of the first final
\* event of its run, or rejects on the first error event, its timer or a
\* socket close; events in any other state leave entry and timer alone, and
\* events after the settlement have no effect.
C17_ChatSettlesOnce == []ChatSettlement /\ [][ChatSettlesOnce]_vars

\* A delta, then the final event that resolved the chat, then one more
\* event of the same run.
C17_Witness ==
    /\ Len(wire.events) = 3
    /\ \A n \in 1..3 : wire.events[n].runId = "run-1"
    /\ wire.events[1].state = "delta"
    /\ wire.events[2].state = "final"
    /\ callers[1].chatBy = "final"
    /\ callers[1].result.value = "run-1#2"

\* C18 (GatewayClient.connect, client.ts 192-202, 360-363).
\* The attempt whose promise is unsettled is the one connectPromise holds, a
\* caller waits for the attempt that was in flight when it called, and
\* connect() returns that attempt's outcome.
OneAttempt ==
    /\ \A a \in 1..Len(sockets) : sockets[a].outcome = "pending" => gw.connectPromise = a
    /\ \A c \in GwCallers :
          /\ callers[c].pc = "awaitConnect" =>
                /\ callers[c].attempt \in 1..Len(sockets)
                /\ sockets[callers[c].attempt].outcome = "pending"
                      => gw.connectPromise = callers[c].attempt
          /\ callers[c].op = "connect" /\ callers[c].pc = "done" /\ callers[c].attempt # 0 =>
                callers[c].result = [status |-> sockets[callers[c].attempt].outcome,
                                     value |-> sockets[callers[c].attempt].value]
    /\ \A f \in wire.sent : f.method = "connect" => sockets[f.socket].connectId = f.id

\* No socket is created and no connect frame sent while an attempt is in
\* flight; a call that finds an attempt in flight joins it; connect() on a
\* connected client returns the stored hello and does nothing else.
Coalesces ==
    /\ Len(sockets') # Len(sockets) =>
          /\ gw.connectPromise = 0
          /\ ~connected(GCur)
          /\ Len(sockets') = Len(sockets) + 1
          /\ gw'.connectPromise = Len(sockets')
    /\ \A f \in wire'.sent \ wire.sent :
          f.method = "connect" => /\ ~sockets[f.socket].connectSent
                                  /\ \A g \in wire'.sent \ wire.sent : g = f
    /\ \A c \in GwCallers :
          /\ callers[c].op = "none" /\ callers'[c].op # "none"
                /\ ~connected(GCur) /\ gw.connectPromise # 0 =>
                /\ callers'[c].attempt = gw.connectPromise
                /\ callers'[c].pc = "awaitConnect"
                /\ UNCHANGED <<gw, sockets, wire>>
          /\ callers[c].op = "none" /\ callers'[c].op = "connect" /\ connected(GCur) =>
                /\ callers'[c].result = [status |-> "resolved", value |-> gw.hello]
                /\ callers'[c].pc = "done"
                /\ UNCHANGED <<gw, sockets, wire>>

\* C18: while a connection attempt is in flight no second socket is opened
\* and no second connect frame is sent; every caller of connect() during
\* the attempt gets that attempt's outcome; connect() on a connected client
\* returns the stored hello without any I/O.
C18_ConnectCoalesces == []OneAttempt /\ [][Coalesces]_vars

\* Two connect() calls shared one socket and one connect request, and both
\* resolved with its hello.
C18_Witness ==
    /\ Len(sockets) = 1
    /\ gw.nextId = 2
    /\ \A c \in GwCallers :
          /\ callers[c].op = "connect"
          /\ callers[c].attempt = 1
          /\ callers[c].result = [status |-> "resolved", value |-> "hello"]
    /\ callers[1].owner /\ ~callers[2].owner

\* C19 (GatewayRegistry.pick, part_004 155-200).
Attempts(name) == Cardinality({n \in 1..Len(picker.tried) : picker.tried[n] = name})

Registered == {picker.names[n] : n \in 1..Len(picker.names)}

Picked == picker.pc = "done"

\* C19: pick returns the preferred gateway when it is registered and
\* connects, otherwise the first gateway in registration order that
\* connects, each tried at most 3 times; it raises only when every
\* registered gateway has failed all its attempts, with the last error's
\* message; on an empty registry it raises "No gateways configured" and
\* attempts no connection.
C19_PickFallsBack ==
    /\ \A name \in GatewayNames : Attempts(name) <= CONNECT_ATTEMPTS
    /\ \A n \in 1..Len(picker.tried) : picker.tried[n] \in Registered
    /\ Picked /\ picker.names = <<>> =>
          /\ picker.result = [status |-> "rejected", value |-> "No gateways configured"]
          /\ picker.tried = <<>>
    /\ Picked /\ picker.result.status = "rejected" /\ picker.names # <<>> =>
          /\ \A name \in Registered : Attempts(name) = CONNECT_ATTEMPTS
          /\ picker.result.value \in
                {picker.lastErr,
                 "Could not connect to any gateway after 3 attempt(s). Last error: "
                     \o picker.lastErr}
    /\ Picked /\ picker.result.status = "resolved" =>
          /\ picker.result.value = picker.tried[Len(picker.tried)]
          /\ picker.result.value # picker.preferred =>
                \A n \in 1..IndexOf(picker.names, picker.result.value) - 1 :
                    Attempts(picker.names[n]) = CONNECT_ATTEMPTS

\* C20 (RateLimiter.acquire / tryAcquire / processQueue, rate-limiter.ts 81-154).
\* The grants whose timestamp lies within the last windowMs.
RecentGrants ==
    {n \in 1..Len(rlog.grants) : rlog.grants[n].at > clock - limiter.windowMs}

\* C20 as stated: whatever the sequence of acquire, tryAcquire, drainer
\* grants and reset, with time advancing, the number of grants whose
\* timestamp lies within the last windowMs never exceeds maxRequests.
C20_GrantsInWindow == Cardinality(RecentGrants) <= limiter.maxRequests

SinceReset == {n \in RecentGrants : rlog.grants[n].epoch = rlog.resets}

\* C20 as amended: the grants made since the last reset whose timestamp
\* lies within the last windowMs never number more than maxRequests, and
\* they are the timestamps the limiter holds that are still in the window.
C20_GrantsInWindowSinceReset ==
    /\ Cardinality(SinceReset) <= limiter.maxRequests
    /\ Cardinality(SinceReset) =
          Len(Filter(limiter.timestamps, clock - limiter.windowMs))

\* After a reset the window is full again, one of its grants made by the
\* drainer, while an earlier grant of the same epoch has left the window.
C20_Witness ==
    /\ rlog.resets = 1
    /\ limiter.maxRequests = 2
    /\ Cardinality(SinceReset) = 2
    /\ \E n \in SinceReset : rlog.grants[n].by = "drainer"
    /\ \E n \in 1..Len(rlog.grants) :
          rlog.grants[n].epoch = 1 /\ n \notin RecentGrants

\* C21 (RateLimiter.acquire, rate-limiter.ts 81-115).
NewRequestId == Len(rlog.requests) + 1

\* The step is an acquire() call that rejected.
AcquireRejected ==
    /\ Len(rlog'.requests) = NewRequestId
    /\ rlog'.requests[NewRequestId].kind = "acquire"
    /\ rlog'.requests[NewRequestId].status = "rejected"

\* The step is an acquire() call made with no slot free.
AcquireAtLimit ==
    /\ Len(rlog'.requests) = NewRequestId
    /\ rlog'.requests[NewRequestId].kind = "acquire"
    /\ Len(Filter(limiter.timestamps, clock - limiter.windowMs)) >= limiter.maxRequests

RejectsAtLimit ==
    /\ AcquireAtLimit /\ ~limiter.queueExcess =>
          /\ rlog'.requests[NewRequestId].status = "rejected"
          /\ rlog'.requests[NewRequestId].value = "Rate limit exceeded"
    /\ AcquireAtLimit /\ limiter.queueExcess /\ Len(limiter.queue) >= limiter.maxQueueSize =>
          /\ rlog'.requests[NewRequestId].status = "rejected"
          /\ rlog'.requests[NewRequestId].value = "Rate limit queue full"
    /\ AcquireAtLimit /\ limiter.queueExcess /\ Len(limiter.queue) < limiter.maxQueueSize =>
          rlog'.requests[NewRequestId].status \in {"queued", "granted"}
    /\ AcquireRejected =>
          /\ AcquireAtLimit
          /\ limiter'.timestamps = limiter.timestamps
          /\ limiter'.queue = limiter.queue
          /\ rlog'.grants = rlog.grants
          /\ limiter'.processing = limiter.processing

\* C21: at the limit acquire rejects with "Rate limit exceeded" when
\* queueExcess is off and with "Rate limit queue full" when it is on and
\* the queue holds maxQueueSize waiters; a rejection leaves the timestamps
\* and the queue as they were and grants nothing; the queue never holds
\* more than maxQueueSize waiters.
C21_RejectsAtLimit ==
    /\ [](Len(limiter.queue) <= limiter.maxQueueSize)
    /\ [][RejectsAtLimit]_vars

\* Two waiters fill the queue and the next acquire is turned away.
C21_Witness ==
    /\ limiter.maxQueueSize = 2
    /\ Len(limiter.queue) = 2
    /\ \E n \in 1..Len(rlog.requests) :
          /\ rlog.requests[n].status = "rejected"
          /\ rlog.requests[n].value = "Rate limit queue full"

\* C22 (RateLimiter.reset / processQueue, rate-limiter.ts 134-182).
QueuedIds(l) == {l.queue[n].id : n \in 1..Len(l.queue)}

ResetStep == rlog'.resets = rlog.resets + 1

\* What a new RateLimiter with the same options holds, but for the drainer
\* that may still be suspended in its wait.
FreshBut(l) ==
    [NewLimiter(l.maxRequests, l.windowMs, l.queueExcess, l.maxQueueSize)
        EXCEPT !.processing = l.processing, !.wakeAt = l.wakeAt]

ResetClears ==
    ResetStep =>
        /\ limiter' = FreshBut(limiter)
        /\ limiter'.timestamps = <<>> /\ limiter'.queue = <<>>
        /\ limiter'.stats = [allowed |-> 0, throttled |-> 0, queued |-> 0, rejected |-> 0]
        /\ rlog'.grants = rlog.grants
        /\ Len(rlog'.requests) = Len(rlog.requests)
        /\ \A n \in 1..Len(rlog.requests) :
              IF n \in QueuedIds(limiter)
              THEN /\ rlog.requests[n].status = "queued"
                   /\ rlog'.requests[n] = [rlog.requests[n] EXCEPT
                                              !.status = "rejected",
                                              !.value = "Rate limiter reset"]
              ELSE rlog'.requests[n] = rlog.requests[n]

\* A request that was granted, rejected or refused stays as it is.
OutcomeIsFinal ==
    \A n \in 1..Len(rlog.requests) :
        rlog.requests[n].status \in {"granted", "rejected", "refused"} =>
            rlog'.requests[n] = rlog.requests[n]

\* The waiters are the queued requests; a request is granted at most once,
\* and never when it was rejected; the drainer runs while there are waiters,
\* and once it has stopped after a reset with nothing granted since, the
\* limiter is a new one.
WaitersAndGrants ==
    /\ QueuedIds(limiter) = {n \in 1..Len(rlog.requests) : rlog.requests[n].status = "queued"}
    /\ Len(limiter.queue) = Cardinality(QueuedIds(limiter))
    /\ \A g, h \in 1..Len(rlog.grants) : rlog.grants[g].id = rlog.grants[h].id => g = h
    /\ \A g \in 1..Len(rlog.grants) : rlog.requests[rlog.grants[g].id].status = "granted"
    /\ limiter.queue # <<>> => limiter.processing

\* C22: reset rejects every queued waiter exactly once with "Rate limiter
\* reset", empties the timestamps and the queue and zeroes the counters; a
\* waiter it rejected is never granted afterwards, also when the drainer was
\* suspended in its wait; the limiter then is as a new one.
C22_ResetClears == []WaitersAndGrants /\ [][ResetClears /\ OutcomeIsFinal]_vars

\* A waiter was rejected by a reset while the drainer slept; later the
\* drainer granted a waiter queued after the reset.
C22_Witness ==
    \E n \in 1..Len(rlog.requests), g \in 1..Len(rlog.grants) :
        /\ rlog.requests[n].value = "Rate limiter reset"
        /\ rlog.grants[g].by = "drainer"
        /\ rlog.grants[g].id > n

\* ------------------------------------------------------------------- C23
\* A set step of the cache, and the keys it evicted.
SetStep == clog'.ops = clog.ops + 1 /\ clog'.last.op = "set"

Evicted == KeysOf(cache.entries) \ KeysOf(cache'.entries)

\* The n least recently used keys of the cache.
LeastRecentlyUsed(n) == {clog.recency[m] : m \in 1..n}

SetEvictsLeastRecentlyUsed ==
    (/\ SetStep
     /\ clog'.last.key \notin KeysOf(cache.entries)
     /\ Len(cache.entries) >= cache.maxEntries)
        => Evicted = LeastRecentlyUsed(Cardinality(Evicted))

\* C23: after any sequence of set, get, has, delete and prune the size of the cache
\* never exceeds maxEntries, and a set that inserts a new key into a full cache evicts
\* the least recently used entries, where a set and a successful get both make an
\* entry the most recently used.
C23_EvictsLeastRecentlyUsed ==
    [](size(CCur) <= cache.maxEntries) /\ [][SetEvictsLeastRecentlyUsed]_vars

\* ------------------------------------------------------------------- C24
\* C24: taskKey depends only on its two arguments, and two distinct (task, agent)
\* pairs, an absent agent being distinct from every present one, get different keys
\* (the digest telling distinct inputs apart).
C24_TaskKeyTellsPairsApart ==
    Len(calc.out) = 2 =>
        (calc.out[1] = calc.out[2] <=> calc.args[1] = calc.args[2])

\* The same with a non-empty agent wherever one is passed: a task holding a colon
\* and no agent against an agent and the rest of that task.
C24_NamedAgents ==
    (\A n \in 1..2 : calc.args[n].agent # <<>>) => C24_TaskKeyTellsPairsApart

\* ------------------------------------------------------------------- C25
\* C25: for every valid finish directive serialized as JSON with a string answer,
\* the truncated-finish salvage of that text returns a finish directive whose answer
\* is the answer that JSON parsing gives.
C25_SalvageAgreesWithParse ==
    (calc.pc = "text" /\ calc.parsed.ok /\ calc.salvageCalled) =>
        /\ calc.parsed.answer = calc.answer
        /\ calc.salvaged.ok
        /\ calc.salvaged.action = "finish"
        /\ calc.salvaged.answer = calc.parsed.answer

\* JSON.parse gives back the answer that was serialized.
ParseRoundTrip == calc.parsed.ok => calc.parsed.answer = calc.answer

\* The answers on which the salvage does agree: at least ten characters, none of them
\* a backslash, the last one not a quote, brace, backtick or whitespace, the action
\* member serialized first.
PlainAnswer(answer) ==
    /\ Len(answer) >= 10
    /\ \A k \in 1..Len(answer) : answer[k] # Backslash
    /\ answer[Len(answer)] \notin {Quote, "}", Backtick} \cup Whitespace

SalvageAgreesOnPlainAnswers ==
    (calc.salvageCalled /\ PlainAnswer(calc.answer) /\ calc.order = "action first") =>
        calc.salvaged = [ok |-> TRUE, action |-> "finish", answer |-> calc.answer]

\* The same for the answers of at least ten characters that do not end in a character
\* the salvage strips, the action member first: the unescaping alone.
C25_UnescapedAnswers ==
    (/\ Len(calc.answer) >= 10
     /\ calc.answer[Len(calc.answer)] \notin {Quote, "}", Backtick} \cup Whitespace
     /\ calc.order = "action first")
        => C25_SalvageAgreesWithParse

\* ------------------------------------------------------------------- C26
RunEnded(type) == type \in {"run:complete", "run:error"}

StepOrTaskEvent(type) ==
    type \in {"step:thinking", "step:started", "step:ended",
              "task:started", "task:chunk", "task:ended"}

StartedFirst ==
    executeRun # <<>> =>
        /\ executeRun[1].type = "run:started"
        /\ \A n \in 2..Len(executeRun) : executeRun[n].type # "run:started"

NothingAfterTheEnd ==
    \A m, n \in 1..Len(executeRun) :
        (m < n /\ RunEnded(executeRun[m].type)) => ~StepOrTaskEvent(executeRun[n].type)

EndBroadcast == \E n \in 1..Len(executeRun) : RunEnded(executeRun[n].type)

\* C26: the events broadcast for an accepted goal start with run:started, which
\* precedes every other event of the run; the run eventually broadcasts run:complete
\* or run:error, and no step or task event of the run is broadcast after that.
C26_RunEvents == [](StartedFirst /\ NothingAfterTheEnd) /\ <>EndBroadcast

\* The parts of it that hold.
C26_StartedFirstAndEnds == []StartedFirst /\ <>EndBroadcast

\* ------------------------------------------------------------------- C27
\* The result execute returned is the one the first event decides.
DecidedByFirstEvent ==
    fa.pc = "returned" =>
        /\ fa.returns = 1
        /\ fa.first = "fulfilled" =>
               fa.result.status = "ok" /\ fa.result.output = fa.fn.value
        /\ fa.first = "rejected" => fa.result.status = "error"
        /\ fa.first = "timeout" => fa.result.status = "timeout"

ResultStays == fa.pc = "returned" => (fa'.pc = "returned" /\ fa'.result = fa.result)

\* C27: execute never raises and returns exactly one result, decided by the event
\* that comes first: ok with the function's value if the function resolves before
\* the timeout, error if it rejects before the timeout, timeout if the timeout
\* elapses first; a function that settles after the timeout does not change the
\* result returned.
C27_FirstEventDecides == []DecidedByFirstEvent /\ [][ResultStays]_vars

\* The same but for a function that raises an Error with the message of the timer.
C27_ButForTheTimersMessage ==
    /\ []((fa.fn.err = TimedOut /\ fa.first = "rejected") \/ DecidedByFirstEvent)
    /\ [][ResultStays]_vars

\* ------------------------------------------------------------------- C28
\* The connect frame of an attempt is signed over the nonce of the challenge received
\* before the fallback fired, and as v1 without nonce when there was none.
SignedOverTheChallenge(a) ==
    sockets[a].frames = 1 =>
        IF sockets[a].challenge # Undefined
        THEN sockets[a].signed = "v2" /\ sockets[a].nonce = sockets[a].challenge
        ELSE sockets[a].signed = "v1" /\ sockets[a].nonce = Undefined

\* A challenge that arrives after sendConnect ran puts no frame on the wire.
LateChallengeSendsNothing ==
    \A a \in 1..Len(sockets) :
        (sockets[a].connectSent /\ sockets'[a].challenges = sockets[a].challenges + 1)
            => (wire'.sent = wire.sent /\ sockets'[a].frames = sockets[a].frames)

\* sendConnect puts its frame on the wire when the socket is open, and nothing else
\* sends a connect frame.
SendsOnAnOpenSocket ==
    \A a \in 1..Len(sockets) :
        sockets'[a].frames =
            IF ~sockets[a].connectSent /\ sockets'[a].connectSent /\ sockets[a].ready = "open"
            THEN 1 ELSE sockets[a].frames

\* C28 as stated: every connection attempt sends exactly one connect frame, so an
\* attempt whose socket has closed has sent one; the frame is signed as v2 over the
\* nonce exactly when a challenge with a nonce came before the fallback fired, else
\* as v1 without nonce; a challenge after the frame was sent causes no second frame.
C28_ExactlyOneConnectFrame ==
    /\ [](\A a \in 1..Len(sockets) :
              /\ sockets[a].frames <= 1
              /\ sockets[a].ready = "closed" => sockets[a].frames = 1
              /\ SignedOverTheChallenge(a))
    /\ [][LateChallengeSendsNothing]_vars

\* C28, amended: an attempt sends at most one connect frame, and exactly one when its
\* socket is open at the first challenge with a nonce or at the fallback, whichever
\* comes first (so every attempt that resolves has sent one); signature and nonce as
\* stated; a challenge after that causes no second frame.
C28_AtMostOneConnectFrame ==
    /\ [](\A a \in 1..Len(sockets) :
              /\ sockets[a].frames <= 1
              /\ sockets[a].outcome = "resolved" => sockets[a].frames = 1
              /\ SignedOverTheChallenge(a))
    /\ [][LateChallengeSendsNothing /\ SendsOnAnOpenSocket]_vars

\* A handshake answered with the nonce of the challenge, followed by the fallback and
\* by a second challenge, has resolved with one frame.
C28_Witness ==
    \E a \in 1..Len(sockets) :
        /\ sockets[a].outcome = "resolved"
        /\ sockets[a].frames = 1
        /\ sockets[a].signed = "v2"
        /\ sockets[a].nonce = "n1"
        /\ sockets[a].challenges = 2
        /\ ~sockets[a].fallback

\* ------------------------------------------------------------------- C29
\* The attempt settles in this step.
Settles(a, outcome) == sockets[a].outcome = "pending" /\ sockets'[a].outcome = outcome

\* The response to the connect request of the attempt is handled in this step.
ConnectAnswered(a) ==
    \E f \in wire.sent \ wire'.sent :
        f.socket = a /\ f.method = "connect" /\ f.id = sockets[a].connectId

\* An attempt resolves only on the response to its connect request, and then the
\* hello is stored and the client connected.
ResolvesOnOk ==
    \A a \in 1..Len(sockets) :
        Settles(a, "resolved") =>
            /\ ConnectAnswered(a)
            /\ gw'.hello = Hello
            /\ connected(GCur)'

\* An attempt that is rejected leaves the client not connected.
RejectedLeavesUnconnected ==
    \A a \in 1..Len(sockets) : Settles(a, "rejected") => ~connected(GCur)'

\* connect() returns what its attempt settled with.
ConnectReturnsTheOutcome ==
    \A c \in GwCallers :
        (callers[c].op = "connect" /\ callers[c].pc = "done") =>
            /\ callers[c].result.status \in {"resolved", "rejected"}
            /\ callers[c].result.status = "resolved" => callers[c].result.value = Hello
            /\ callers[c].attempt # 0 =>
                   callers[c].result.status = sockets[callers[c].attempt].outcome

ConnectedMeansOpenWithHello ==
    connected(GCur) => (gw.ws # 0 /\ sockets[gw.ws].ready = "open" /\ gw.hello = Hello)

EveryAttemptSettles ==
    /\ \A a \in SocketSet :
           [](Len(sockets) >= a => <>(Len(sockets) >= a /\ sockets[a].outcome # "pending"))
    /\ \A c \in GwCallers : [](callers[c].op = "connect" => <>(callers[c].pc = "done"))

\* C29: connect() resolves only after an ok response to its connect request, and then
\* the hello is stored and connected is true; an error response, a socket error, a
\* close or the connect timeout before that rejects connect() and leaves connected
\* false; every connect attempt eventually resolves or rejects; connected is true
\* only while the socket is open and a hello is stored.
C29_ConnectSettles ==
    /\ [](ConnectedMeansOpenWithHello /\ ConnectReturnsTheOutcome)
    /\ [][ResolvesOnOk /\ RejectedLeavesUnconnected]_vars
    /\ EveryAttemptSettles

\* The parts of it that hold.
C29_SettlesAndReturns ==
    /\ [](ConnectedMeansOpenWithHello /\ ConnectReturnsTheOutcome)
    /\ [][\A a \in 1..Len(sockets) : Settles(a, "resolved") => ConnectAnswered(a)]_vars
    /\ EveryAttemptSettles

\* ------------------------------------------------------------------- C30
Waiting(id) == id <= Len(rlog.requests) /\ rlog.requests[id].status = "queued"

\* Time has run to the end of the period observed.
TimeIsUp == \A d \in Advances : clock + d > MaxClock

\* ... with no slot free, or with the drainer's timer still to fire.
NoSlotInTime ==
    TimeIsUp /\ (~HasSlot(cleanup(limiter, clock)) \/ limiter.wakeAt > clock)

\* Waiters always have a drainer, which looks again within 100 ms.
DrainerAtWork ==
    limiter.queue # <<>> =>
        /\ limiter.queueExcess
        /\ limiter.processing
        /\ limiter.wakeAt <= clock + 100
        /\ \A n \in 1..Len(limiter.queue) : Waiting(limiter.queue[n].id)

RECURSIVE Upstream(_, _)
Upstream(nodes, n) ==
    nodes[n].dependsOn \cup UNION {Upstream(nodes, d) : d \in nodes[n].dependsOn}

FailedNodes == {f \in NodeIds(dag.nodes) : dag.nodes[f].status = "failed"}

DependsOnAFailure(n) == Upstream(dag.nodes, n) \cap FailedNodes # {}

HasRun(n) == \E p \in DOMAIN dag.started : dag.started[p] = n

\* A node goes from pending to running, in a segment that leaves every one
\* of its dependencies done.
StartsAfterDependencies ==
    \A n \in NodeIds(dag.nodes) :
        dag.nodes[n].status # "running" /\ dag'.nodes[n].status = "running"
        => /\ dag.nodes[n].status = "pending"
           /\ \A d \in dag.nodes[n].dependsOn :
                 /\ dag'.nodes[d].status = "done"
                 /\ dag.nodes[d].status \in {"done", "running"}

\* A skipped node stays skipped and is not started.
SkippedForGood ==
    \A n \in NodeIds(dag.nodes) :
        dag.nodes[n].status = "skipped"
        => dag'.nodes[n].status = "skipped" /\ ~HasRun(n)'

\* Whatever depends on a failed node is skipped and has not run; a node is
\* skipped only for that reason, or because the caller aborted.
FailureSkipsDownstream ==
    \A n \in NodeIds(dag.nodes) :
        /\ DependsOnAFailure(n) => dag.nodes[n].status = "skipped" /\ ~HasRun(n)
        /\ dag.nodes[n].status = "skipped" => DependsOnAFailure(n) \/ dag.aborted

\* When execute returns without an abort, every node that does not depend
\* on a failed node has run; success says that every node is done, which is
\* that every agent call returned a result with status ok.
ReturnsWithTheRestRun ==
    dag.pc = "returned" =>
        /\ ~dag.aborted =>
              \A n \in NodeIds(dag.nodes) :
                  ~DependsOnAFailure(n) => HasRun(n) /\ dag.nodes[n].status \in {"done", "failed"}
        /\ dag.success <=> \A n \in NodeIds(dag.nodes) : dag.nodes[n].status = "done"
        /\ dag.success <=>
              \A n \in NodeIds(dag.nodes) : HasRun(n) /\ dag.nodes[n].result.status = "ok"

\* C31: a node starts running only after all of its dependencies are done;
\* when a node fails, every node that depends on it, directly or not, is
\* skipped and never runs; the nodes that do not depend on a failed node
\* have all run when execute returns (the caller not aborting); success is
\* true exactly when every node ends done.
C31_DependenciesAndSkips ==
    /\ [][dag.pc # "idle" => StartsAfterDependencies /\ SkippedForGood]_vars
    /\ [](dag.pc # "idle" => FailureSkipsDownstream /\ ReturnsWithTheRestRun)
    /\ [](\A n \in NodeIds(dag.nodes) :
             dag.nodes[n].status = "running"
             => \A d \in dag.nodes[n].dependsOn : dag.nodes[d].status = "done")

\* A chain of three nodes whose first node failed, and a fourth node on its own
\* that ran and is done.
C31_Witness ==
    /\ dag.pc = "returned"
    /\ ~dag.aborted
    /\ Len(dag.nodes) = 4
    /\ dag.nodes[2].dependsOn = {1}
    /\ dag.nodes[3].dependsOn = {2}
    /\ dag.nodes[1].status = "failed"
    /\ dag.nodes[2].status = "skipped"
    /\ dag.nodes[3].status = "skipped"
    /\ dag.nodes[4].status = "done"
    /\ ~dag.success

\* ------------------------------------------------------------------ C38
\* C38 (as claimed): for every graph validate accepts and every
\* maxConcurrency, execute returns when the agent calls return or raise, and
\* at its return every node is done, failed or skipped.
C38_ExecuteTerminates ==
    /\ [](dag.pc = "returned" => isComplete(dag.nodes))
    /\ (dag.pc # "idle") ~> (dag.pc = "returned")

\* The parts of it that hold: the state at return, and the return itself
\* when the batch size is at least 1.
C38_TerminatesWithABatch ==
    /\ [](dag.pc = "returned" => isComplete(dag.nodes) /\ ~dag.deadlock)
    /\ (dag.pc # "idle" /\ dag.maxConcurrency > 0) ~> (dag.pc = "returned")

\* ------------------------------------------------------------------ C39
\* A set of a key the cache holds, which returns.
SetOfAPresentKey ==
    SetStep /\ clog'.last.key \in KeysOf(cache.entries) /\ ~clog'.hangs

ReplacesTheEntry ==
    LET key == clog'.last.key
    IN  /\ key \in KeysOf(cache'.entries)
        /\ EntryOf(cache'.entries, key).expiresAt = clock + cache.ttlMs
        /\ EntryOf(cache'.entries, key).hits = 0

\* C39: a set of a key that is already present replaces its entry, evicts
\* no other entry, and leaves the key the most recently used: the last of
\* the entries in the order in which later insertions evict them.
C39_SetOfAPresentKey ==
    [][SetOfAPresentKey =>
          /\ ReplacesTheEntry
          /\ KeysOf(cache'.entries) = KeysOf(cache.entries)
          /\ cache'.entries[Len(cache'.entries)].key = clog'.last.key]_vars

\* The part of it that holds: the entry is replaced.
C39_ReplacesTheEntry == [][SetOfAPresentKey => ReplacesTheEntry]_vars

\* ------------------------------------------------------------------ C40
\* C40: every call of set returns, whatever the keys in the cache and the
\* key being set, the empty string included.
C40_SetTerminates == ~clog.hangs

\* The part of it that holds: a set returns when the first key of a full
\* cache is not the empty string, also when the key being set is.
C40_HangsOnlyOnAnEmptyFirstKey ==
    [][clog'.hangs /\ ~clog.hangs
          => /\ SetStep
             /\ Len(cache.entries) >= cache.maxEntries
             /\ Head(cache.entries).key = ""]_vars

\* ------------------------------------------------------------------ C37
\* The grants made by a step.
NewGrants == {rlog'.grants[g] : g \in (Len(rlog.grants) + 1)..Len(rlog'.grants)}

\* The drainer grants the waiter that was queued first.
DrainerGrantsInOrder ==
    \A g \in NewGrants :
        g.by = "drainer"
        => /\ g.id \in QueuedIds(limiter)
           /\ \A id \in QueuedIds(limiter') : id > g.id

\* A call is granted a slot at once only when nobody is queued.
NoGrantAheadOfTheQueue ==
    \A g \in NewGrants : g.by \in {"acquire", "tryAcquire"} => limiter.queue = <<>>

\* C37: queued waiters are granted in the order they were queued, and no
\* acquire() or tryAcquire() call made while waiters are queued is granted a
\* slot ahead of them.
C37_FirstComeFirstServed ==
    [][DrainerGrantsInOrder /\ NoGrantAheadOfTheQueue]_vars

\* The part of it that holds: the order among the queued waiters.
C37_QueueOrder == [][DrainerGrantsInOrder]_vars

\* ------------------------------------------------------------------ C34
\* The events of c's run that the client has handled.
EventsOf(c) == {n \in 1..Len(wire.events) : wire.events[n].runId = callers[c].runId}

\* The chat.send response of c was handled and chat() has not settled.
AwaitingItsEvents(c) == callers[c].op = "chat" /\ callers[c].pc \in {"acked", "awaitChat"}

\* No event of the run is handled between the response and the registration.
RegisteredBeforeItsEvents ==
    \A c \in GwCallers :
        /\ callers[c].pc = "acked" => EventsOf(c) = {}
        /\ \A n \in EventsOf(c) : n > callers[c].registeredAt

\* A final or error event handled after the response settles the chat.
TerminalEventSettles ==
    \A c \in GwCallers :
        (/\ EventHandled
         /\ LastEvent.state \in {"final", "error"}
         /\ LastEvent.runId = callers[c].runId
         /\ AwaitingItsEvents(c))
        => callers'[c].pc = "done" /\ callers'[c].chatBy = LastEvent.state

\* C34: the pendingChats entry of a run is registered before the client
\* handles any frame that follows the chat.send response carrying the run
\* id, so a final or error event of the run received after that response
\* settles the chat and is never dropped.
C34_NoEventBeforeRegistration ==
    []RegisteredBeforeItsEvents /\ [][TerminalEventSettles]_vars

\* The part of it that holds: once chat() has registered the entry.
C34_RegisteredChatsSettle ==
    [][\A c \in GwCallers :
          (/\ EventHandled
           /\ LastEvent.state \in {"final", "error"}
           /\ LastEvent.runId = callers[c].runId
           /\ Chatting(c))
          => callers'[c].pc = "done" /\ callers'[c].chatBy = LastEvent.state]_vars

\* ------------------------------------------------------------------ C33
\* The close event of a socket that disconnect() closed is handled while the
\* client has a newer socket.
StaleClose(a) ==
    /\ a \in 1..Len(sockets)
    /\ sockets[a].disconnected
    /\ sockets[a].ready # "closed"
    /\ sockets'[a].ready = "closed"
    /\ gw.ws # 0
    /\ gw.ws # a

\* The requests and chats in flight on the client's current socket.
PendingOnCurrent ==
    {e \in gw.pending : \E f \in wire.sent : f.id = e.id /\ f.socket = gw.ws}

ChatsOnCurrent ==
    {e \in gw.pendingChats : [socket |-> gw.ws, runId |-> e.runId] \in wire.acked}

StaleCloseChangesNothing ==
    \A a \in SocketSet :
        StaleClose(a) =>
            /\ gw'.hello = gw.hello
            /\ connected(GCur) => connected(GCur)'
            /\ PendingOnCurrent \subseteq gw'.pending
            /\ ChatsOnCurrent \subseteq gw'.pendingChats

\* C33: after disconnect() and a new connect(), the close event of the
\* previous socket neither clears the hello of the new handshake (connected
\* stays true) nor rejects the pending and pendingChats entries of the new
\* socket.
C33_StaleCloseIsIgnored == [][StaleCloseChangesNothing]_vars

\* C36: throughout a run submitted through the dashboard the state of the
\* dashboard's RunStatus equals the status of the orchestrator's RunState,
\* the forced finish after the last step included.
C36_StatesAgree == RunStatus.state = state.status

\* Apart from the forced finish the two do agree, and when run() has
\* returned so do steps, finalAnswer and error.
C36_AgreeOutsideForcedFinish ==
    /\ pc # "force" => RunStatus.state = state.status
    /\ pc = "returned" =>
          /\ RunStatus.steps = state.steps
          /\ RunStatus.finalAnswer = state.finalAnswer
          /\ RunStatus.error = state.error

\* C32: after any sequence of goal submissions and run deletions the run map
\* of the dashboard holds at most maxRuns runs, and a submission that finds
\* the map at the cap evicts exactly one run, the earliest-submitted run
\* still in the map.
AtMostMaxRuns == Len(srv.runs) <= srv.maxRuns /\ Cardinality(Keys(srv.runs)) = Len(srv.runs)

GoalAccepted == srv'.submitted = srv.submitted + 1

EvictsTheEarliest ==
    GoalAccepted =>
        LET gone == Keys(srv.runs) \ Keys(srv'.runs)
        IN  /\ srv'.submitted \in Keys(srv'.runs)
            /\ Keys(srv'.runs) \subseteq Keys(srv.runs) \cup {srv'.submitted}
            /\ IF Len(srv.runs) >= srv.maxRuns
               THEN /\ Cardinality(gone) = 1
                    /\ \A g \in gone, k \in Keys(srv.runs) :
                          srv.objs[g].startedAt <= srv.objs[k].startedAt
               ELSE gone = {}

C35_DeletedRunsStayDeleted ==
    \A runId \in srv.deleted :
        /\ runId \notin Keys(srv.runs)
        /\ runId \notin DOMAIN srv.store
        /\ handleGetRun(srv, runId).last.status = 404

\* A deleted run never returns to the map, and a server without a run store
\* answers 404 for it from then on; only the store gets the run back.
C35_DeletedRunsStayOutOfTheMap ==
    \A runId \in srv.deleted :
        /\ runId \notin Keys(srv.runs)
        /\ ~srv.hasStore => handleGetRun(srv, runId).last.status = 404
        /\ runId \in DOMAIN srv.store => srv.store[runId].state # "thinking"

====
